---- MODULE Spec2Model ----
(***************************************************************************)
(* Height-field water simulation of enable3d-phaser: the GPGPU height      *)
(* shader HEIGHT_FS, the wave-source uniforms, the one-shot splash and the *)
(* per-frame step, as implemented by CompWaterPBR (components/             *)
(* CompWaterPBR.ts) and by its JavaScript predecessor GPGPUWaterPBR        *)
(* (objects/GPGPUWaterPBR.js).  Both classes share the shader; they differ *)
(* in addPlaneWave, in the plane-wave dispersion and in what the add       *)
(* methods return, so the model carries the class as the variable impl.    *)
(*                                                                         *)
(* Numbers.  A JavaScript number or GLSL float is a record: a finite value *)
(* [t |-> "num", n |-> v] holding the integer v = value * SC (fixed point, *)
(* products and quotients truncated toward zero), NaN, or undefined (an    *)
(* omitted argument).  IEEE infinities are not represented: the only       *)
(* division by zero the modelled inputs reach (1.0 / rw_decay with decay   *)
(* 0) is handled where it occurs.                                          *)
(***************************************************************************)
EXTENDS Integers, Sequences, FiniteSets, TLC

----------------------------------------------------------------------------
(* Bounds of the model *)

\* fixed-point resolution: SC units per 1.0
SC == 100
\* simulation grid (props.simW x props.simH; 128 x 128 in the demos)
SimW == 3
SimH == 3
\* number of wave-registry / splash calls and of steps explored
MaxCalls == 2
MaxSteps == 2
\* number of wave-registry calls explored by SpecRing
MaxRingCalls == 6
\* number of add calls explored by SpecOmega
MaxOmegaCalls == 2
\* number of wave-registry / splash calls explored by SpecQuery
MaxQueryCalls == 1
\* number of steps whose texels SpecCells shades one by one
MaxPasses == 2
\* number of CompBuoyancy updates and of water steps explored by SpecBuoy
MaxUpdates == 3
MaxBuoySteps == 2
\* SpecSettle: frames stepped with the radial wave on, frames stepped after
\* clearWaves, and the number of those after which the field is to be at rest
MaxWaveFrames == 3
MaxSettleSteps == 40
SettleBound == 30
\* the epsilon of "at rest", in units of 1/SC
Eps == 2
MaxTwoCalls == 2
MaxTwoSteps == 3
MaxAnyUpdates == 2
MaxObjects == 2
MaxFrames == 2
MaxGameCalls == 4
MaxHealthCalls == 4
MaxSceneObjects == 2
MaxSceneCalls == 5

----------------------------------------------------------------------------
(* Numbers *)

F(v) == [t |-> "num", n |-> v]
NaN == [t |-> "nan", n |-> 0]
Undefined == [t |-> "undef", n |-> 0]

\* a literal a/b (b > 0) at the model's resolution
Lit(a, b) == F((a * SC) \div b)

IsNum(x) == x.t = "num"
\* Number.isFinite
NumberIsFinite(x) == x.t = "num"
\* JavaScript truthiness of a number: false for 0, NaN and undefined
Truthy(x) == x.t = "num" /\ x.n # 0
\* a value stored into a Float32Array element (undefined becomes NaN)
ToFloat32(x) == IF x.t = "num" THEN x ELSE NaN

Abs(v) == IF v < 0 THEN -v ELSE v
\* integer quotient truncated toward zero, b > 0
Quot(a, b) == IF a >= 0 THEN a \div b ELSE -((-a) \div b)
MinI(a, b) == IF a < b THEN a ELSE b
MaxI(a, b) == IF a > b THEN a ELSE b

Add(a, b) == IF IsNum(a) /\ IsNum(b) THEN F(a.n + b.n) ELSE NaN
Sub(a, b) == IF IsNum(a) /\ IsNum(b) THEN F(a.n - b.n) ELSE NaN
Mul(a, b) == IF IsNum(a) /\ IsNum(b) THEN F(Quot(a.n * b.n, SC)) ELSE NaN
Neg(a) == IF IsNum(a) THEN F(-a.n) ELSE NaN
\* a / b for b # 0
Div(a, b) ==
  IF IsNum(a) /\ IsNum(b)
  THEN IF b.n > 0 THEN F(Quot(a.n * SC, b.n)) ELSE F(-Quot(a.n * SC, -b.n))
  ELSE NaN

RECURSIVE ISqrtIter(_, _, _)
ISqrtIter(v, lo, hi) ==
  IF lo >= hi THEN lo
  ELSE LET mid == (lo + hi + 1) \div 2
       IN IF mid * mid <= v THEN ISqrtIter(v, mid, hi) ELSE ISqrtIter(v, lo, mid - 1)
\* floor of the square root of v >= 0
ISqrt(v) == ISqrtIter(v, 0, MinI(v, 46340))

\* Math.sqrt / sqrt of a finite x >= 0
Sqrt(x) == IF IsNum(x) /\ x.n >= 0 THEN F(ISqrt(x.n * SC)) ELSE NaN

Pi == (314159 * SC) \div 100000
TwoPi == (628318 * SC) \div 100000

\* sin on [0, pi]: Bhaskara's rational approximation, exact at 0, pi/2 and pi
SinHalf(y) ==
  LET p == y * (Pi - y)
  IN Quot(16 * p * SC, 5 * Pi * Pi - 4 * p)
\* sin(x): 0 at 0, odd about pi, within [-1, 1]
Sin(x) ==
  IF ~IsNum(x) THEN NaN
  ELSE LET y == x.n % TwoPi
       IN IF y <= Pi THEN F(SinHalf(y)) ELSE F(-SinHalf(MinI(y - Pi, Pi)))

\* above this argument a 32-bit float exp(-x) is exactly 0
ExpCut == 104
\* exp(-x) for x >= 0: 1 / (1 + x + x^2/2 + x^3/6 + x^4/24), 1 at 0, decreasing;
\* 0 as soon as the denominator passes the resolution
ExpNeg(x) ==
  IF ~IsNum(x) THEN NaN
  ELSE IF x.n >= ExpCut * SC THEN F(0)
  ELSE LET t1 == x.n
           t2 == (t1 * x.n) \div (2 * SC)
           t3 == (t2 * x.n) \div (3 * SC)
           t4 == (t3 * x.n) \div (4 * SC)
       IN IF SC + t1 + t2 > SC * SC THEN F(0)
          ELSE IF SC + t1 + t2 + t3 > SC * SC THEN F(0)
          ELSE F((SC * SC) \div (SC + t1 + t2 + t3 + t4))

\* distances beyond FarLen world units are represented by FarLen
FarLen == 100
\* GLSL length(vec2(dx, dy))
Length(dx, dy) ==
  IF ~(IsNum(dx) /\ IsNum(dy)) THEN NaN
  ELSE IF Abs(dx.n) >= FarLen * SC \/ Abs(dy.n) >= FarLen * SC THEN F(FarLen * SC)
  ELSE F(MinI(ISqrt(dx.n * dx.n + dy.n * dy.n), FarLen * SC))

\* the outcomes a GLSL build can give clamp(x, lo, hi) for a NaN x (undefined
\* by the GLSL specification): NaN kept, or either bound
ClampNaNOutcomes == {"nan", "min", "max"}
\* GLSL clamp(x, lo, hi) = min(max(x, lo), hi); u is the build's outcome for NaN
Clamp(x, lo, hi, u) ==
  IF IsNum(x) THEN F(MinI(MaxI(x.n, lo.n), hi.n))
  ELSE IF u = "min" THEN lo ELSE IF u = "max" THEN hi ELSE NaN
\* GLSL max(a, b) and min(a, b) of finite numbers
Max(a, b) == IF IsNum(a) /\ IsNum(b) THEN F(MaxI(a.n, b.n)) ELSE NaN
Min(a, b) == IF IsNum(a) /\ IsNum(b) THEN F(MinI(a.n, b.n)) ELSE NaN
\* GLSL smoothstep(e0, e1, x), e0 < e1
Smoothstep(e0, e1, x) ==
  LET t == Clamp(Div(Sub(x, e0), Sub(e1, e0)), F(0), F(SC), "nan")
  IN Mul(Mul(t, t), Sub(F(3 * SC), Mul(F(2 * SC), t)))
\* GLSL mix(a, b, t) = a * (1 - t) + b * t
Mix(a, b, t) == Add(Mul(a, Sub(F(SC), t)), Mul(b, t))

----------------------------------------------------------------------------
(* State *)

VARIABLES
  impl,            \* the class of the water instance
  heightmap,       \* the current render target of varHeight: cell -> [h, v]
  simTime,         \* this.simTime
  mousePos,        \* uniforms.mousePos: pending splash position, local XY
  mouseSize,       \* uniforms.mouseSize: splash radius
  splashStrength,  \* uniforms.splashStrength
  pw,              \* uniforms.pw_dir/pw_k/pw_omega/pw_amp/pw_phase, slot -> record
  rw,              \* uniforms.rw_center/rw_k/rw_omega/rw_amp/rw_decay/rw_phase
  planeWaves,      \* this._planeWaves
  radialWaves,     \* this._radialWaves
  rwWrite,         \* this._rwWrite: the radial ring's write cursor
  ret,             \* what the last call returned: {} for undefined, {v} for a number
                   \* (an index as it is, a float as its fixed-point value)
  lastOp,          \* history: the last operation and what it was given
  nCalls,          \* history: wave-registry, splash and pointer calls so far
  nSteps,          \* history: steps so far
  nRadial,         \* history: addRadialWave calls so far
  forced,          \* history: some step ran with an active source or a splash
  alt,             \* the alternate render target of varHeight, written by compute()
  pass,            \* the compute pass under way: its uniforms and the texels shaded
  body,            \* the CompBuoyancy component and its object3D
  upd,             \* history: what the last CompBuoyancy.compUpdate computed
  peer,            \* a second water instance: its fields while `this` is the first
  tmp,             \* the module-level scratch vector _tmp (x, z)
  world,           \* engine/World.js: the World and its GameObjects
  health,          \* components/HealthComponent.js and its health Stat
  scene            \* engine/GameScene.ts and its GameObjects (engine/GameObject.ts)

vars == <<impl, heightmap, simTime, mousePos, mouseSize, splashStrength, pw, rw,
          planeWaves, radialWaves, rwWrite, ret, lastOp, nCalls, nSteps, nRadial,
          forced, alt, pass, body, upd, peer, tmp, world, health, scene>>

MAX_PW == 4
MAX_RW == 4
Slots == 0 .. 3
Cells == (0 .. SimW - 1) \X (0 .. SimH - 1)

\* props.sizeX, props.sizeY: a plane of two world units per grid cell
SizeX == 2 * SimW
SizeY == 2 * SimH
\* props.position of the mesh (x, z); the mesh is rotated by -pi/2 about X
PosX == 1
PosZ == 2
\* props.position.y: the resting height of the water surface
PosY == 1

\* uniforms set once by the constructor
BaselineReturn == Lit(8, 100)
BoundsX == Mul(F(SizeX * SC), Lit(1, 2))
BoundsY == Mul(F(SizeY * SC), Lit(1, 2))
DefaultMouseSize == F(10 * SC)
\* mousePos "far away": the constructor's and the step's reset value
Sentinel == <<F(9999 * SC), F(9999 * SC)>>

ZeroPW == [dir |-> <<F(SC), F(0)>>, k |-> F(0), omega |-> F(0), amp |-> F(0), phase |-> F(0)]
ZeroRW == [center |-> <<F(0), F(0)>>, k |-> F(0), omega |-> F(0), amp |-> F(0),
           decay |-> F(0), phase |-> F(0)]

\* #seed: every texel (height, velocity) = (0, 0)
Seed == [c \in Cells |-> [h |-> F(0), v |-> F(0)]]

----------------------------------------------------------------------------
(* HEIGHT_FS: one texel of the next height map *)

ClampI(v, lo, hi) == MinI(MaxI(v, lo), hi)
\* texture2D(heightmap, uv + offset): nearest texel, clamped to the edge
Texel(hm, i, j) == hm[<<ClampI(i, 0, SimW - 1), ClampI(j, 0, SimH - 1)>>]

\* uv = gl_FragCoord.xy * cell, gl_FragCoord = index + 0.5
UvX == [i \in 0 .. SimW - 1 |-> F(Quot((2 * i + 1) * SC, 2 * SimW))]
UvY == [j \in 0 .. SimH - 1 |-> F(Quot((2 * j + 1) * SC, 2 * SimH))]
\* local = (uv - 0.5) * 2.0 * bounds
LocalX == [i \in 0 .. SimW - 1 |-> Mul(Mul(Sub(UvX[i], Lit(1, 2)), F(2 * SC)), BoundsX)]
LocalY == [j \in 0 .. SimH - 1 |-> Mul(Mul(Sub(UvY[j], Lit(1, 2)), F(2 * SC)), BoundsY)]
\* edge damping: mix(0.99, 1.0, smoothstep(0.0, 0.04, min(fx, fy)))
EdgeDamping ==
  [c \in Cells |->
     LET fx == Min(UvX[c[1]], Sub(F(SC), UvX[c[1]]))
         fy == Min(UvY[c[2]], Sub(F(SC), UvY[c[2]]))
         border == Smoothstep(F(0), Lit(4, 100), Min(fx, fy))
     IN Mix(Lit(99, 100), F(SC), border)]

\* impulse = (1.0 - 50.0 * r2) * g * splashStrength, g = exp(-100.0 * r2),
\* r = length(local - mousePos) / mouseSize
Impulse(U, i, j) ==
  LET d == Length(Sub(LocalX[i], U.mousePos[1]), Sub(LocalY[j], U.mousePos[2]))
      r == Div(d, U.mouseSize)
      r2 == Mul(r, r)
      g == ExpNeg(Mul(F(100 * SC), r2))
  IN \* beyond the radius where exp(-100 r2) is 0 the products are 0 (or NaN)
     IF IsNum(r2) /\ r2.n > ExpCut * SC
     THEN Mul(F(0), U.splashStrength)
     ELSE Mul(Mul(Sub(F(SC), Mul(F(50 * SC), r2)), g), U.splashStrength)

\* one plane wave's term of the forcing sum
PlaneTerm(w, U, i, j) ==
  IF w.amp # F(0)
  THEN LET dot == Add(Mul(w.dir[1], LocalX[i]), Mul(w.dir[2], LocalY[j]))
           theta == Add(Sub(Mul(w.k, dot), Mul(w.omega, U.simTime)), w.phase)
       IN Mul(w.amp, Sin(theta))
  ELSE F(0)

\* one radial wave's term of the forcing sum
RadialTerm(w, U, i, j) ==
  IF w.amp # F(0)
  THEN LET r == Length(Sub(LocalX[i], w.center[1]), Sub(LocalY[j], w.center[2]))
           \* sigma = max(1e-3, 1.0 / decay); q = r / sigma (1.0 / 0.0 is +inf, q = 0)
           q == IF ~IsNum(w.decay) THEN NaN
                ELSE IF w.decay.n = 0 THEN Mul(r, F(0))
                ELSE Div(r, Max(F(MaxI(1, SC \div 1000)), Div(F(SC), w.decay)))
           env == ExpNeg(Mul(q, q))
           hat == Mul(Sub(F(SC), Mul(F(2 * SC), Mul(q, q))), env)
           om == Max(w.omega, F(MaxI(1, SC \div 1000)))
           theta == Add(Sub(Mul(w.k, r), Mul(om, U.simTime)), w.phase)
       IN Mul(Mul(w.amp, hat), Sin(theta))
  ELSE F(0)

RECURSIVE SumPlane(_, _, _, _)
SumPlane(U, i, j, s) ==
  IF s = MAX_PW THEN F(0) ELSE Add(PlaneTerm(U.pw[s], U, i, j), SumPlane(U, i, j, s + 1))
RECURSIVE SumRadial(_, _, _, _)
SumRadial(U, i, j, s) ==
  IF s = MAX_RW THEN F(0) ELSE Add(RadialTerm(U.rw[s], U, i, j), SumRadial(U, i, j, s + 1))
\* forcing: the plane loop, then the radial loop
Forcing(U, i, j) == Add(SumPlane(U, i, j, 0), SumRadial(U, i, j, 0))

\* velocity after "vel = clamp(vel, -20.0, 20.0)"
ClampVel(vel, u) == Clamp(vel, F(-20 * SC), F(20 * SC), u)

\* a baseline return that does not scale with the height: the field drifts
\* from rest
BaselineDrift(height, delta) == Sub(height, Mul(BaselineReturn, delta))

\* "height -= height * baselineReturn * delta"
BaselineReturned(height, delta) == Sub(height, Mul(Mul(height, BaselineReturn), delta))

\* main(): the texel written for cell (i, j), reading the previous map hm
HEIGHT_FS(hm, U, i, j, u) ==
  LET hC == Texel(hm, i, j).h
      hL == Texel(hm, i - 1, j).h
      hR == Texel(hm, i + 1, j).h
      hD == Texel(hm, i, j - 1).h
      hU == Texel(hm, i, j + 1).h
      sump == Sub(Add(Add(Add(hL, hR), hD), hU), Mul(F(4 * SC), hC))
      GRAVITY == F(SimW * 3 * SC)
      accel == Mul(sump, GRAVITY)
      vel0 == Add(Texel(hm, i, j).v, Mul(accel, U.delta))
      vel1 == Add(vel0, Impulse(U, i, j))
      vel2 == Add(vel1, Mul(Forcing(U, i, j), U.delta))
      vel3 == ClampVel(vel2, u)
      \* "height = clamp(hC + vel * delta, -5.0, 5.0)" is overwritten by the next
      \* assignment to height, as are the assignments before it
      vel4 == Mul(vel3, Lit(995, 1000))
      height0 == Add(hC, Mul(vel4, U.delta))
      height1 == BaselineReturned(height0, U.delta)
      vel5 == Mul(vel4, EdgeDamping[<<i, j>>])
  IN [h |-> height1, v |-> vel5]

\* gpu.compute(): every texel from the previous map, then the targets swap
Compute(hm, U, u) == [c \in Cells |-> HEIGHT_FS(hm, U, c[1], c[2], u)]

----------------------------------------------------------------------------
(* Dispersion *)

MIN_OMEGA == Lit(1, 2)
\* g_sim = this.gpu.width * 3.0
GSim == F(SimW * 3 * SC)

\* k = (wavelength && wavelength > 0) ? (2 * Math.PI / wavelength) : 0
WaveNumber(wavelength) ==
  IF Truthy(wavelength) /\ wavelength.n > 0 THEN Div(F(TwoPi), wavelength) ELSE F(0)

\* a resolution that consults the speed before the period
CalcOmegaSpeedFirst(k, speed, omega, periodSec) ==
  IF NumberIsFinite(omega) /\ omega.n > 0 THEN omega
  ELSE IF NumberIsFinite(speed) /\ speed.n # 0 THEN F(Abs(Mul(k, speed).n))
  ELSE IF NumberIsFinite(periodSec) /\ periodSec.n > 0 THEN Div(F(TwoPi), periodSec)
  ELSE LET om == IF k.n > 0 THEN Sqrt(Max(F(0), Mul(GSim, k))) ELSE F(0)
       IN Max(om, MIN_OMEGA)

\* _calcOmega(k, speed, omega, periodSec), the same in both classes
CalcOmega(k, speed, omega, periodSec) ==
  IF NumberIsFinite(omega) /\ omega.n > 0 THEN omega
  ELSE IF NumberIsFinite(periodSec) /\ periodSec.n > 0 THEN Div(F(TwoPi), periodSec)
  ELSE IF NumberIsFinite(speed) /\ speed.n # 0 THEN F(Abs(Mul(k, speed).n))
  ELSE LET om == IF k.n > 0 THEN Sqrt(Max(F(0), Mul(GSim, k))) ELSE F(0)
       IN Max(om, MIN_OMEGA)

\* CompWaterPBR._calcDispersion: omega through _calcOmega, without a period
CompCalcDispersion(wavelength, speed, omega) ==
  LET k == WaveNumber(wavelength)
  IN [k |-> k, omega |-> CalcOmega(k, speed, omega, Undefined)]

\* GPGPUWaterPBR._calcDispersion: any number given as omega is taken as it is,
\* then k * speed, then sqrt(max(0, g_sim * k))
GpgpuCalcDispersion(wavelength, speed, omega) ==
  LET k == WaveNumber(wavelength)
  IN [k |-> k,
      omega |-> IF omega.t # "undef" THEN omega
                ELSE IF speed.t # "undef" THEN Mul(k, speed)
                ELSE Sqrt(Max(F(0), Mul(GSim, k)))]

\* THREE.Vector2.normalize(): divideScalar(length() || 1)
Normalize(dir) ==
  LET len == Length(dir[1], dir[2])
      by == IF Truthy(len) THEN len ELSE F(SC)
  IN <<Div(dir[1], by), Div(dir[2], by)>>

\* x || 0 for an optional number
OrZero(x) == IF Truthy(x) THEN x ELSE F(0)
\* a default parameter value: taken when the argument is undefined
Default(x, d) == IF x.t = "undef" THEN d ELSE x

----------------------------------------------------------------------------
(* Wave-source registry *)

\* a copy of the newest four stored plane waves instead of the first four
AddPWNewestToUniforms(waves, u) ==
  LET n == MinI(Len(waves), 4)
      off == Len(waves) - n
  IN [i \in Slots |->
        IF i < n
        THEN [dir |-> waves[off + i + 1].dir, k |-> ToFloat32(waves[off + i + 1].k),
              omega |-> ToFloat32(waves[off + i + 1].omega),
              amp |-> ToFloat32(waves[off + i + 1].amp),
              phase |-> ToFloat32(waves[off + i + 1].phase)]
        ELSE [u[i] EXCEPT !.amp = F(0)]]

\* _addPWToUniforms: the first min(length, 4) stored waves are copied to the
\* slots, the other slots get amplitude 0
AddPWToUniforms(waves, u) ==
  LET n == MinI(Len(waves), 4)
  IN [i \in Slots |->
        IF i < n
        THEN [dir |-> waves[i + 1].dir, k |-> ToFloat32(waves[i + 1].k),
              omega |-> ToFloat32(waves[i + 1].omega), amp |-> ToFloat32(waves[i + 1].amp),
              phase |-> ToFloat32(waves[i + 1].phase)]
        ELSE [u[i] EXCEPT !.amp = F(0)]]

\* a copy of the stored radial waves that leaves the other slots as they are
AddRWKeepingRest(waves, u) ==
  LET n == MinI(Len(waves), 4)
  IN [i \in Slots |->
        IF i < n
        THEN [center |-> waves[i + 1].center, k |-> ToFloat32(waves[i + 1].k),
              omega |-> ToFloat32(waves[i + 1].omega), amp |-> ToFloat32(waves[i + 1].amp),
              decay |-> ToFloat32(waves[i + 1].decay), phase |-> ToFloat32(waves[i + 1].phase)]
        ELSE u[i]]

\* _addRWToUniforms, likewise for the radial slots
AddRWToUniforms(waves, u) ==
  LET n == MinI(Len(waves), 4)
  IN [i \in Slots |->
        IF i < n
        THEN [center |-> waves[i + 1].center, k |-> ToFloat32(waves[i + 1].k),
              omega |-> ToFloat32(waves[i + 1].omega), amp |-> ToFloat32(waves[i + 1].amp),
              decay |-> ToFloat32(waves[i + 1].decay), phase |-> ToFloat32(waves[i + 1].phase)]
        ELSE [u[i] EXCEPT !.amp = F(0)]]

Called(op, arg) ==
  /\ lastOp' = [op |-> op, arg |-> arg]
  /\ nCalls' = nCalls + 1
  /\ nRadial' = IF op = "addRadialWave" THEN nRadial + 1 ELSE nRadial
  /\ UNCHANGED <<nSteps, forced>>

\* CompWaterPBR.addPlaneWave({dir, wavelength, amplitude, speed, phase, omega})
CompAddPlaneWave(a) ==
  /\ impl = "CompWaterPBR"
  /\ IF Len(planeWaves) < MAX_PW
     THEN LET d == CompCalcDispersion(a.wavelength, a.speed, a.omega)
              w == [dir |-> Normalize(a.dir), k |-> d.k, omega |-> d.omega,
                    amp |-> a.amplitude, phase |-> OrZero(a.phase)]
          IN /\ planeWaves' = Append(planeWaves, w)
             /\ pw' = AddPWToUniforms(planeWaves', pw)
     ELSE UNCHANGED <<planeWaves, pw>>
  /\ ret' = {}
  /\ Called("addPlaneWave", a)
  /\ UNCHANGED <<impl, peer, tmp, world, health, scene, alt, pass, body, upd, heightmap, simTime, mousePos, mouseSize, splashStrength, rw,
                 radialWaves, rwWrite>>

\* GPGPUWaterPBR.addPlaneWave({dir, wavelength = 10, amplitude = 0.6, phase = 0,
\* speed, omega}): always pushed; returns the index in _planeWaves
GpgpuAddPlaneWave(a) ==
  /\ impl = "GPGPUWaterPBR"
  /\ LET d == GpgpuCalcDispersion(Default(a.wavelength, F(10 * SC)), a.speed, a.omega)
         w == [dir |-> Normalize(a.dir), k |-> d.k, omega |-> d.omega,
               amp |-> Default(a.amplitude, Lit(6, 10)), phase |-> Default(a.phase, F(0))]
     IN /\ planeWaves' = Append(planeWaves, w)
        /\ pw' = AddPWToUniforms(planeWaves', pw)
        /\ ret' = {Len(planeWaves') - 1}
  /\ Called("addPlaneWave", a)
  /\ UNCHANGED <<impl, peer, tmp, world, health, scene, alt, pass, body, upd, heightmap, simTime, mousePos, mouseSize, splashStrength, rw,
                 radialWaves, rwWrite>>

\* no gate: the amplitude stored as it is given
UngatedAmplitude(k, om, amplitude) == amplitude

\* the amplitude addRadialWave stores: "gate off bad waves"
GateAmplitude(k, om, amplitude) ==
  IF k = F(0) \/ ~NumberIsFinite(om) \/ om.n <= 0 THEN F(0) ELSE amplitude

\* a cursor that stays on the last slot instead of wrapping
RingSlotSaturating(cursor) == MinI(cursor, MAX_RW - 1)

\* the slot addRadialWave writes: this._rwWrite % this._MAX_RW
RingSlot(cursor) == cursor % MAX_RW

\* addRadialWave(props), in both classes; GPGPUWaterPBR gives the parameters
\* defaults and returns the slot, CompWaterPBR does neither
AddRadialWave(a) ==
  LET g == impl = "GPGPUWaterPBR"
      wavelength == IF g THEN Default(a.wavelength, F(8 * SC)) ELSE a.wavelength
      amplitude == IF g THEN Default(a.amplitude, Lit(1, 2)) ELSE a.amplitude
      decay == IF g THEN Default(a.decay, Lit(8, 100)) ELSE a.decay
      phase == IF g THEN Default(a.phase, F(0)) ELSE OrZero(a.phase)
      k == WaveNumber(wavelength)
      om == CalcOmega(k, a.speed, a.omega, a.periodSec)
      i == RingSlot(rwWrite)
  IN /\ rwWrite' = rwWrite + 1
     /\ rw' = [rw EXCEPT ![i] = [center |-> a.center, k |-> ToFloat32(k),
                                 omega |-> ToFloat32(om),
                                 amp |-> ToFloat32(GateAmplitude(k, om, amplitude)),
                                 decay |-> ToFloat32(decay), phase |-> ToFloat32(phase)]]
     /\ ret' = IF g THEN {i} ELSE {}
     /\ Called("addRadialWave", a)
     /\ UNCHANGED <<impl, peer, tmp, world, health, scene, alt, pass, body, upd, heightmap, simTime, mousePos, mouseSize, splashStrength, pw,
                    planeWaves, radialWaves>>

\* a disable whose range check starts at slot 1
DisableRadialWaveFromOne(i) ==
  /\ rw' = IF i > 0 /\ i < MAX_RW THEN [rw EXCEPT ![i].amp = F(0)] ELSE rw
  /\ ret' = {}
  /\ Called("disableRadialWave", [i |-> i])
  /\ UNCHANGED <<impl, peer, tmp, world, health, scene, alt, pass, body, upd, heightmap, simTime, mousePos, mouseSize, splashStrength, pw,
                 planeWaves, radialWaves, rwWrite>>

\* disableRadialWave(i)
DisableRadialWave(i) ==
  /\ rw' = IF i >= 0 /\ i < MAX_RW THEN [rw EXCEPT ![i].amp = F(0)] ELSE rw
  /\ ret' = {}
  /\ Called("disableRadialWave", [i |-> i])
  /\ UNCHANGED <<impl, peer, tmp, world, health, scene, alt, pass, body, upd, heightmap, simTime, mousePos, mouseSize, splashStrength, pw,
                 planeWaves, radialWaves, rwWrite>>

\* clearWaves()
ClearWaves ==
  /\ planeWaves' = <<>>
  /\ radialWaves' = <<>>
  /\ pw' = AddPWToUniforms(planeWaves', pw)
  /\ rw' = AddRWToUniforms(radialWaves', rw)
  /\ ret' = {}
  /\ Called("clearWaves", [none |-> 0])
  /\ UNCHANGED <<impl, peer, tmp, world, health, scene, alt, pass, body, upd, heightmap, simTime, mousePos, mouseSize, splashStrength, rwWrite>>

----------------------------------------------------------------------------
(* Splash *)

\* _worldToLocalXY of the world point (x, mesh.position.y, z): the inverse of
\* the mesh's translation and of its rotation by -pi/2 about X
WorldToLocalXY(x, z) == <<Sub(x, F(PosX * SC)), Neg(Sub(z, F(PosZ * SC)))>>

\* a splash that adds its strength to the one pending
SplashAdding(a) ==
  [mousePos |-> IF a.coords = "local" THEN <<a.x, a.z>> ELSE WorldToLocalXY(a.x, a.z),
   mouseSize |-> mouseSize,
   splashStrength |-> Add(splashStrength, Default(a.strength, F(SC)))]

\* the uniforms splash(x, z, size, strength, coords) writes
SplashUniforms(a) ==
  LET size == IF impl = "CompWaterPBR" THEN Default(a.size, F(20 * SC)) ELSE a.size
  IN [mousePos |-> IF a.coords = "local" THEN <<a.x, a.z>> ELSE WorldToLocalXY(a.x, a.z),
      mouseSize |-> IF size.t # "undef" THEN size ELSE mouseSize,
      splashStrength |-> Default(a.strength, F(SC))]

\* a splash that writes its strength into the field as it is called
SplashAtOnce(a) ==
  /\ mousePos' = IF a.coords = "local" THEN <<a.x, a.z>> ELSE WorldToLocalXY(a.x, a.z)
  /\ mouseSize' = mouseSize
  /\ splashStrength' = Default(a.strength, F(SC))
  /\ heightmap' = [heightmap EXCEPT ![<<SimW \div 2, SimH \div 2>>].v =
                     Add(@, Default(a.strength, F(SC)))]
  /\ ret' = {}
  /\ Called("splash", a)
  /\ UNCHANGED <<impl, peer, tmp, world, health, scene, alt, pass, body, upd, simTime, pw, rw, planeWaves, radialWaves, rwWrite>>

\* splash(x, z, size, strength, coords); size defaults to 20 in CompWaterPBR and
\* to null (mouseSize kept) in GPGPUWaterPBR, strength to 1.0, coords to 'world'
Splash(a) ==
  /\ mousePos' = SplashUniforms(a).mousePos
  /\ mouseSize' = SplashUniforms(a).mouseSize
  /\ splashStrength' = SplashUniforms(a).splashStrength
  /\ ret' = {}
  /\ Called("splash", a)
  /\ UNCHANGED <<impl, peer, tmp, world, health, scene, alt, pass, body, upd, heightmap, simTime, pw, rw, planeWaves, radialWaves, rwWrite>>

\* a listener that reads _tmp as the previous call left it
LocalStale(written, before) == before
\* "const local = _tmp", read after "_tmp.copy(p).sub(mesh.position)" wrote it
Local(written, before) == written

\* CompWaterPBR's pointermove listener when the ray hits the plane at world
\* point (p[1], y, p[2]): local = p - mesh.position; this.splash(local.x,
\* -local.z, 5, 30); mousePos.set(local.x, -local.z)
PointerMove(p) ==
  /\ impl = "CompWaterPBR"
  /\ LET lx == Sub(p[1], F(PosX * SC))
         lz == Sub(p[2], F(PosZ * SC))
     IN /\ tmp' = <<lx, lz>>
        /\ mousePos' = <<Local(tmp', tmp)[1], Neg(Local(tmp', tmp)[2])>>
  /\ mouseSize' = F(5 * SC)
  /\ splashStrength' = F(30 * SC)
  /\ Called("pointermove", [p |-> p])
  /\ UNCHANGED <<impl, peer, world, health, scene, alt, pass, body, upd, heightmap, simTime, pw, rw, planeWaves, radialWaves, rwWrite, ret>>

\* CompWaterPBR's pointerout listener
PointerOut ==
  /\ impl = "CompWaterPBR"
  /\ mousePos' = Sentinel
  /\ Called("pointerout", [none |-> 0])
  /\ UNCHANGED <<impl, peer, tmp, world, health, scene, alt, pass, body, upd, heightmap, simTime, mouseSize, splashStrength, pw, rw, planeWaves,
                 radialWaves, rwWrite, ret>>

----------------------------------------------------------------------------
(* The step *)

\* no hit of the pointer ray on the plane
NoHit == <<>>

\* the uniforms HEIGHT_FS reads in a step of dt: GPGPUWaterPBR.update first
\* calls splashAtMouse(100.0), which on a hit at world point `hit` sets
\* mousePos and splashStrength = 100.0
StepUniforms(dt, hit) ==
  LET atMouse == impl = "GPGPUWaterPBR" /\ hit # NoHit
  IN [mousePos |-> IF atMouse THEN WorldToLocalXY(hit[1], hit[2]) ELSE mousePos,
      mouseSize |-> mouseSize,
      splashStrength |-> IF atMouse THEN F(100 * SC) ELSE splashStrength,
      delta |-> dt,
      simTime |-> Add(simTime, dt),
      pw |-> pw,
      rw |-> rw]

\* no reset: the pending splash left as the step found it
ImpulseKept == [mousePos |-> mousePos, splashStrength |-> splashStrength]

\* the state of the pending splash after the step: "One-frame impulse reset"
ImpulseReset == [mousePos |-> Sentinel, splashStrength |-> F(0)]

\* a source or a splash that the shader's guards let through
Active(U) ==
  \/ U.splashStrength # F(0)
  \/ \E i \in Slots : U.pw[i].amp # F(0) \/ U.rw[i].amp # F(0)

\* compUpdate(dt) / update(dt): delta = dt, simTime += dt, gpu.compute(), reset
\* of the splash; u is the build's clamp-of-NaN outcome
Step(dt, hit, u) ==
  /\ LET U == StepUniforms(dt, hit)
     IN /\ simTime' = U.simTime
        /\ heightmap' = Compute(heightmap, U, u)
        /\ lastOp' = [op |-> "step", arg |-> [dt |-> dt, hit |-> hit,
                                              strength |-> U.splashStrength]]
        /\ forced' = (forced \/ Active(U))
  /\ mousePos' = ImpulseReset.mousePos
  /\ splashStrength' = ImpulseReset.splashStrength
  /\ nSteps' = nSteps + 1
  /\ UNCHANGED <<impl, peer, tmp, world, health, scene, alt, pass, body, upd, mouseSize, pw, rw, planeWaves, radialWaves, rwWrite, ret, nCalls,
                 nRadial>>

----------------------------------------------------------------------------
(* Inputs *)

V2(x, y) == <<F(x * SC), F(y * SC)>>

\* Scenario B's plane wave (wavelength 10, amplitude 1, speed 2), direction not
\* normalised
PlaneB == [dir |-> V2(2, 0), wavelength |-> F(10 * SC), amplitude |-> F(SC),
           speed |-> F(2 * SC), phase |-> Undefined, omega |-> Undefined]
\* a plane wave of wavelength 0 (k = 0)
PlaneZ == [dir |-> V2(0, 1), wavelength |-> F(0), amplitude |-> F(2 * SC),
           speed |-> Undefined, phase |-> Lit(157, 100), omega |-> Undefined]
\* a plane wave whose amplitude is NaN
PlaneNaN == [PlaneB EXCEPT !.amplitude = NaN]

\* a radial wave at the plane's centre
RadialA == [center |-> V2(0, 0), wavelength |-> F(8 * SC), amplitude |-> Lit(1, 2),
            decay |-> Lit(1, 2), phase |-> Undefined, speed |-> F(SC),
            omega |-> Undefined, periodSec |-> Undefined]
\* a radial wave of decay 0, with a period
RadialD == [center |-> V2(2, 0), wavelength |-> F(5 * SC), amplitude |-> F(2 * SC),
            decay |-> F(0), phase |-> F(0), speed |-> F(SC),
            omega |-> Undefined, periodSec |-> F(2 * SC)]
\* a radial wave of wavelength 0 (k = 0)
RadialZ == [RadialA EXCEPT !.wavelength = F(0), !.amplitude = F(SC)]
\* a radial wave whose amplitude is NaN
RadialNaN == [RadialA EXCEPT !.amplitude = NaN]

\* Scenario D's splash (radius 5, strength 100) at the world point above the
\* plane's centre, and a splash in local coordinates with the defaults
SplashD == [x |-> F(PosX * SC), z |-> F(PosZ * SC), size |-> F(5 * SC),
            strength |-> F(100 * SC), coords |-> "world"]
SplashL == [x |-> F(2 * SC), z |-> F(0), size |-> Undefined, strength |-> Undefined,
            coords |-> "local"]

\* a splash at the centre wide enough for the neighbouring texels to lie on
\* the kernel's negative ring, and weak enough not to reach the velocity clamp
SplashRing == [SplashD EXCEPT !.size = F(10 * SC), !.strength = F(5 * SC)]

PointerHit == <<F((PosX + 2) * SC), F(PosZ * SC)>>

\* the inputs of the specifications: Spec draws valid inputs and runs few calls
\* and steps; SpecRing runs the wave registry alone, for as many calls as wrap
\* the rings; SpecAnyWave adds malformed wave sources, SpecAnyDt invalid dt
ValidInputs ==
  [plane |-> {PlaneB, PlaneZ}, radial |-> {RadialA, RadialD, RadialZ},
   splash |-> {SplashD, SplashL}, ids |-> {1},
   dts |-> {F(0), Lit(2, 100), Lit(1, 2)}, hits |-> {NoHit, PointerHit},
   maxCalls |-> MaxCalls, maxSteps |-> MaxSteps]
RingInputs ==
  [plane |-> {PlaneB, PlaneZ}, radial |-> {RadialA, RadialD},
   ids |-> {-1, 0, 3, 4}, maxCalls |-> MaxRingCalls]
AnyWaveInputs ==
  [plane |-> {PlaneB, PlaneNaN}, radial |-> {RadialA, RadialNaN},
   splash |-> {SplashD}, ids |-> {1},
   dts |-> {F(0), Lit(2, 100)}, hits |-> {NoHit},
   maxCalls |-> MaxCalls, maxSteps |-> MaxSteps]
AnyDtInputs ==
  [plane |-> {PlaneB}, radial |-> {RadialA},
   splash |-> {SplashD}, ids |-> {1},
   dts |-> {Lit(2, 100), Lit(-2, 100), NaN}, hits |-> {NoHit},
   maxCalls |-> MaxCalls, maxSteps |-> MaxSteps]

----------------------------------------------------------------------------
(* Specification *)

ZeroSlots(z) == [i \in Slots |-> z]

\* no compute pass under way
IdlePass ==
  [busy |-> FALSE, done |-> {}, u |-> "nan",
   U |-> [mousePos |-> Sentinel, mouseSize |-> DefaultMouseSize, splashStrength |-> F(0),
          delta |-> F(0), simTime |-> F(0), pw |-> ZeroSlots(ZeroPW),
          rw |-> ZeroSlots(ZeroRW)]]

\* no CompBuoyancy component yet, no update yet
NoBody ==
  [placed |-> FALSE, probes |-> <<>>, y |-> 0, vy |-> 0, w |-> <<0, 0, 0>>,
   q |-> <<0, 0, 0, SC>>, buoyancyForce |-> 0, dragForce |-> 0]
NoUpdate ==
  [n |-> 0, dt |-> 0, depths |-> <<>>, valid |-> 0, total |-> 0, torque |-> <<0, 0, 0>>,
   avg |-> 0, y |-> 0, spring |-> 0, integrated |-> FALSE, splashed |-> FALSE]

\* the fields a CompWaterPBR / GPGPUWaterPBR constructor gives an instance
NewWater ==
  [heightmap |-> Seed, simTime |-> F(0), mousePos |-> Sentinel,
   mouseSize |-> DefaultMouseSize, splashStrength |-> F(0), pw |-> ZeroSlots(ZeroPW),
   rw |-> ZeroSlots(ZeroRW), planeWaves |-> <<>>, radialWaves |-> <<>>, rwWrite |-> 0]

\* the group names in use, the GameObjects that can be constructed
GroupNames == {"crates"}
ObjectIds == 1 .. MaxObjects
\* a GameObject that has not been constructed: its fields, and as history the
\* calls of start(), update(dt) and _destroyInternal() it has received, the
\* frame and the phase of World.update it was constructed in, the frame of its
\* start(), whether update(dt) reached it unstarted or dead, and whether
\* addToGroup was given it dead since it was last flushed out
NoObject ==
  [created |-> FALSE, alive |-> FALSE, started |-> FALSE, groups |-> {},
   nStart |-> 0, updated |-> FALSE, nDestroyInternal |-> 0,
   born |-> [frame |-> 0, pc |-> "idle"], startFrame |-> 0,
   updatedUnstarted |-> FALSE, updatedDead |-> FALSE, joinedDead |-> FALSE]
\* new World(scene): no objects, no groups, nothing pending; the module's
\* _GO_ID = 1; as control state the phase of World.update under way (pc), the
\* position of its for-of loop (i), the object whose hook is running (hook),
\* and as history the frames begun, the calls the game's code has made and
\* the last call that returned
NewWorld ==
  [objects |-> <<>>, groups |-> [n \in GroupNames |-> {}], toAdd |-> <<>>,
   toRemove |-> <<>>, obj |-> [o \in ObjectIds |-> NoObject], goId |-> 1,
   pc |-> "idle", i |-> 0, hook |-> 0, clearing |-> FALSE,
   frame |-> 0, calls |-> 0, last |-> "constructor"]
\* no HealthComponent yet: its stats, the calls of parent.destroy(), and for
\* the last compUpdate the base health it found, the regeneration it added
\* and whether it destroyed the parent; pending is the sum of the amounts
\* asked of heal less those asked of damage less armor since that compUpdate
NewHealth ==
  [made |-> FALSE, stats |-> [health |-> <<>>, regenRate |-> <<>>, armor |-> <<>>],
   parentDestroys |-> 0, pending |-> 0, baseBefore |-> 0, regen |-> 0,
   destroyedNow |-> FALSE, calls |-> 0, last |-> "none"]
SceneGroups == {"enemies", "loot"}
SceneIds == 1 .. MaxSceneObjects
\* a GameObject of engine/GameObject.ts before its construction; removed is
\* "obj.props = null"
NoSceneObject ==
  [created |-> FALSE, alive |-> FALSE, removed |-> FALSE, groups |-> {},
   health |-> 0, maxHealth |-> 0]
\* a GameScene after init(): groupManager has a Set for the names in has;
\* deadChanged and lateKill record a damage() call that changed a dead object
\* or left alive an object whose health it had brought to 0
NewScene ==
  [obj |-> [o \in SceneIds |-> NoSceneObject], nextId |-> 1,
   gameObjects |-> <<>>, pendingAdd |-> <<>>, pendingRemove |-> <<>>,
   has |-> {}, members |-> [g \in SceneGroups |-> {}],
   ret |-> 0, deadChanged |-> FALSE, lateKill |-> FALSE,
   calls |-> 0, last |-> "init"]

Init ==
  /\ impl \in {"CompWaterPBR", "GPGPUWaterPBR"}
  /\ heightmap = Seed
  /\ simTime = F(0)
  /\ mousePos = Sentinel
  /\ mouseSize = DefaultMouseSize
  /\ splashStrength = F(0)
  /\ pw = ZeroSlots(ZeroPW)
  /\ rw = ZeroSlots(ZeroRW)
  /\ planeWaves = <<>>
  /\ radialWaves = <<>>
  /\ rwWrite = 0
  /\ ret = {}
  /\ lastOp = [op |-> "constructor", arg |-> [none |-> 0]]
  /\ nCalls = 0
  /\ nSteps = 0
  /\ nRadial = 0
  /\ forced = FALSE
  /\ alt = Seed
  /\ pass = IdlePass
  /\ body = NoBody
  /\ upd = NoUpdate
  /\ peer = NewWater
  /\ tmp = <<F(0), F(0)>>
  /\ world = NewWorld
  /\ health = NewHealth
  /\ scene = NewScene

AddPlaneWaveOp(In) == nCalls < In.maxCalls /\ \E a \in In.plane :
                        CompAddPlaneWave(a) \/ GpgpuAddPlaneWave(a)
AddRadialWaveOp(In) == nCalls < In.maxCalls /\ \E a \in In.radial : AddRadialWave(a)
DisableOp(In) == nCalls < In.maxCalls /\ \E i \in In.ids : DisableRadialWave(i)
ClearOp(In) == nCalls < In.maxCalls /\ ClearWaves
SplashOp(In) == nCalls < In.maxCalls /\ \E a \in In.splash : Splash(a)
PointerOp(In) == nCalls < In.maxCalls /\ (PointerMove(PointerHit) \/ PointerOut)
\* a NaN among what the shader reads (without one, no clamp sees a NaN)
ReadsNaN(U) ==
  \/ ~IsNum(U.delta) \/ ~IsNum(U.simTime) \/ ~IsNum(U.splashStrength) \/ ~IsNum(U.mouseSize)
  \/ ~IsNum(U.mousePos[1]) \/ ~IsNum(U.mousePos[2])
  \/ \E c \in Cells : ~IsNum(heightmap[c].h) \/ ~IsNum(heightmap[c].v)
  \/ \E i \in Slots : ~IsNum(U.pw[i].amp) \/ ~IsNum(U.pw[i].k) \/ ~IsNum(U.pw[i].omega)
                      \/ ~IsNum(U.pw[i].phase)
  \/ \E i \in Slots : ~IsNum(U.rw[i].amp) \/ ~IsNum(U.rw[i].k) \/ ~IsNum(U.rw[i].omega)
                      \/ ~IsNum(U.rw[i].phase) \/ ~IsNum(U.rw[i].decay)

StepOp(In) ==
  /\ nSteps < In.maxSteps
  /\ \E dt \in In.dts, hit \in (IF impl = "GPGPUWaterPBR" THEN In.hits ELSE {NoHit}) :
       \E u \in (IF ReadsNaN(StepUniforms(dt, hit)) THEN ClampNaNOutcomes ELSE {"nan"}) :
         Step(dt, hit, u)

NextOf(In) ==
  \/ AddPlaneWaveOp(In)
  \/ AddRadialWaveOp(In)
  \/ DisableOp(In)
  \/ ClearOp(In)
  \/ SplashOp(In)
  \/ PointerOp(In)
  \/ StepOp(In)

Next == NextOf(ValidInputs)

Spec == Init /\ [][Next]_vars

\* the wave registry alone
NextRing ==
  \/ AddPlaneWaveOp(RingInputs)
  \/ AddRadialWaveOp(RingInputs)
  \/ DisableOp(RingInputs)
  \/ ClearOp(RingInputs)

SpecRing == Init /\ [][NextRing]_vars

\* malformed wave sources as well, stepped with valid dt
NextAnyWave == NextOf(AnyWaveInputs)

SpecAnyWave == Init /\ [][NextAnyWave]_vars

\* negative and NaN dt as well
NextAnyDt == NextOf(AnyDtInputs)

SpecAnyDt == Init /\ [][NextAnyDt]_vars

----------------------------------------------------------------------------
(* Properties of the step *)

InRange(x, lo, hi) == IsNum(x) /\ lo * SC <= x.n /\ x.n <= hi * SC

\* C1: after every step (finite dt >= 0, any stored sources and pending
\* splash) every cell's velocity is within [-20, 20] and every cell's height
\* within [-5, 5].
C1_StepKeepsBounds ==
  lastOp.op = "step" =>
    \A c \in Cells : InRange(heightmap[c].v, -20, 20) /\ InRange(heightmap[c].h, -5, 5)

\* the part of C1 the shader does keep: the velocity written is within [-20, 20]
C1_VelocityBounded ==
  lastOp.op = "step" => \A c \in Cells : InRange(heightmap[c].v, -20, 20)

\* the pending-splash uniforms as the next step's shader would read them
Pending ==
  [mousePos |-> mousePos, mouseSize |-> mouseSize, splashStrength |-> splashStrength]

\* C2: after any step the pending splash is consumed: mousePos is the far-away
\* sentinel, splashStrength is 0, and the impulse a following step would add is
\* 0 at every cell.
C2_SplashConsumedByOneStep ==
  lastOp.op = "step" =>
    /\ mousePos = Sentinel
    /\ splashStrength = F(0)
    /\ \A c \in Cells : Impulse(Pending, c[1], c[2]) = F(0)

NoSourceStored == \A i \in Slots : pw[i].amp = F(0) /\ rw[i].amp = F(0)

\* a second step that found no splash pending, although the first step's splash
\* (the only forcing there has been) left the field moving
C2_SecondStepWithoutSplash ==
  /\ lastOp.op = "step"
  /\ nSteps = 2
  /\ lastOp.arg.strength = F(0)
  /\ NoSourceStored
  /\ nCalls = 1
  /\ \E c \in Cells : heightmap[c].h # F(0)

\* C3: as long as no step has run with an active wave source or a pending
\* splash, the field is the seeded all-zero field, whatever dt >= 0 the steps
\* were given.
C3_RestIsFixedPoint == ~forced => heightmap = Seed

\* two steps of the field at rest, time having advanced
C3_SteppedAtRest ==
  /\ ~forced
  /\ nSteps = 2
  /\ lastOp.op = "step"
  /\ simTime.n > 0

----------------------------------------------------------------------------
(* Properties of the wave-source registry *)

\* the uniforms a step of one frame would read in the current state
NextUniforms == StepUniforms(Lit(2, 100), NoHit)

\* slot holds the plane wave given to addPlaneWave as a
HoldsPlane(slot, a) ==
  /\ slot.dir = Normalize(a.dir)
  /\ slot.k = ToFloat32(WaveNumber(a.wavelength))
  /\ slot.amp = ToFloat32(a.amplitude)

\* slot holds the radial wave given to addRadialWave as a
HoldsRadial(slot, a) ==
  /\ slot.center = a.center
  /\ slot.k = ToFloat32(WaveNumber(a.wavelength))
  /\ slot.decay = ToFloat32(a.decay)

RadialAddWrites(s) ==
  /\ HoldsRadial(rw'[s], lastOp'.arg)
  /\ \A t \in Slots \ {s} : rw'[t] = rw[t]
  /\ pw' = pw

\* C5 as the specification states it: the n-th addRadialWave (n = 0, 1, ...)
\* writes radial slot n mod 4, leaves the other slots unchanged, and returns
\* that slot index.
C5_RadialAddReturnsRingSlot ==
  [][lastOp'.op = "addRadialWave" =>
       RadialAddWrites(nRadial % MAX_RW) /\ ret' = {nRadial % MAX_RW}]_vars

\* C5: the n-th addRadialWave (n = 0, 1, ...) writes radial slot n mod 4 and
\* leaves the other three radial slots and all plane slots unchanged;
\* GPGPUWaterPBR returns that slot index, CompWaterPBR returns nothing.
C5_RadialAddWritesRingSlot ==
  [][lastOp'.op = "addRadialWave" =>
       /\ RadialAddWrites(nRadial % MAX_RW)
       /\ ret' = IF impl = "GPGPUWaterPBR" THEN {nRadial % MAX_RW} ELSE {}]_vars

\* the fifth addRadialWave has replaced slot 0, slot 1 holding another wave
C5_RingWrapped ==
  /\ lastOp.op = "addRadialWave"
  /\ nRadial = 5
  /\ HoldsRadial(rw[0], lastOp.arg)
  /\ ~HoldsRadial(rw[1], lastOp.arg)
  /\ rw[1].amp # F(0)

C7_InvalidDtIsNoOp ==
  [][(lastOp'.op = "step" /\ (~IsNum(lastOp'.arg.dt) \/ lastOp'.arg.dt.n < 0)) =>
       heightmap' = heightmap /\ simTime' = simTime]_vars

\* C8: whatever wave sources are added, malformed ones included, every cell's
\* height and velocity stay finite under steps of finite dt >= 0.
C8_FieldStaysFinite ==
  \A c \in Cells : IsNum(heightmap[c].h) /\ IsNum(heightmap[c].v)

C10_DisableZeroesOnlyThatSlot ==
  [][lastOp'.op = "disableRadialWave" =>
       /\ \A t \in Slots :
            /\ rw'[t].amp = IF t = lastOp'.arg.i THEN F(0) ELSE rw[t].amp
            /\ [rw'[t] EXCEPT !.amp = F(0)] = [rw[t] EXCEPT !.amp = F(0)]
       /\ pw' = pw
       /\ rwWrite' = rwWrite
       /\ heightmap' = heightmap]_vars

\* an active radial slot has been disabled while another stays active
C10_DisabledAnActiveSlot ==
  /\ lastOp.op = "disableRadialWave"
  /\ lastOp.arg.i \in Slots
  /\ rw[lastOp.arg.i].k # F(0)
  /\ rw[lastOp.arg.i].amp = F(0)
  /\ \E t \in Slots : rw[t].amp # F(0)

----------------------------------------------------------------------------
(* Resolution of the angular frequency *)

\* every combination of an omega, a period, a speed and a wavelength that is
\* given or omitted; wavelength 300 puts sqrt(g_sim * k) below MIN_OMEGA
OmegaChoices == {Undefined, F(3 * SC), F(0)}
PeriodChoices == {Undefined, F(2 * SC)}
SpeedChoices == {Undefined, F(2 * SC), F(-2 * SC)}
WavelengthChoices == {F(10 * SC), F(300 * SC)}
OmegaInputs ==
  [plane |-> {[PlaneB EXCEPT !.omega = o, !.speed = v, !.wavelength = w] :
                o \in OmegaChoices, v \in SpeedChoices, w \in WavelengthChoices},
   radial |-> {[RadialA EXCEPT !.omega = o, !.periodSec = p, !.speed = v, !.wavelength = w] :
                o \in OmegaChoices, p \in PeriodChoices, v \in SpeedChoices,
                w \in WavelengthChoices},
   maxCalls |-> MaxOmegaCalls]

\* the add methods alone, over OmegaInputs
NextOmega ==
  \/ AddPlaneWaveOp(OmegaInputs)
  \/ AddRadialWaveOp(OmegaInputs)

SpecOmega == Init /\ [][NextOmega]_vars

\* the omega of the slot the last add call wrote
LastPlaneOmega == pw[Len(planeWaves) - 1].omega
LastRadialOmega == rw[(nRadial - 1) % MAX_RW].omega
\* the deep-water fallback sqrt(g_sim * k) raised to MIN_OMEGA
Fallback(k) == Max(Sqrt(Mul(GSim, k)), MIN_OMEGA)

IsGiven(x) == x # Undefined
IsPositive(x) == IsNum(x) /\ x.n > 0
IsNonZero(x) == IsNum(x) /\ x.n # 0

\* the priority order: the omega if it is finite and > 0, then 2*pi/period if
\* the argument has a period and it is finite and > 0, then |k * speed| if the
\* speed is finite and not 0, then the fallback
ResolvedInOrder(stored, a, hasPeriod) ==
  LET k == WaveNumber(a.wavelength)
  IN IF IsPositive(a.omega) THEN stored = a.omega
     ELSE IF hasPeriod /\ IsPositive(a.periodSec) THEN stored = Div(F(TwoPi), a.periodSec)
     ELSE IF IsNonZero(a.speed) THEN stored = F(Abs(Mul(k, a.speed).n))
     ELSE stored = Fallback(k) /\ stored.n >= MIN_OMEGA.n

----------------------------------------------------------------------------
(* getHeightAtPoint (CompWaterPBR) *)

\* props.displacementScale
DisplacementScale == Lit(1, 2)
\* this._normalY: the Y of the mesh normal (0, 0, 1) rotated by -pi/2 about X
NormalY == F(SC)

\* an unclamped u
NoClampUnit(n, den) == n
\* u = Math.min(Math.max(l * invSize + 0.5, 0), 1), as the numerator n of
\* u = n / den
ClampUnit(n, den) == ClampI(n, 0, den)
\* a grid coordinate that counts cells instead of nodes
GridCoordCells(un, width) == un * width
\* f = u * (width - 1), as a numerator over the same denominator
GridCoord(un, width) == un * (width - 1)
\* a + (b - a) * t with t = n / den
Lerp(a, b, n, den) ==
  IF IsNum(a) /\ IsNum(b) THEN F(a.n + Quot((b.n - a.n) * n, den)) ELSE NaN
\* the height channel of pixel (x, y) as readRenderTargetPixels delivers it; a
\* pixel outside the target leaves the (zero-initialised) buffer as it is
ReadPixel(hm, x, y) ==
  IF x \in 0 .. SimW - 1 /\ y \in 0 .. SimH - 1 THEN hm[<<x, y>>].h ELSE F(0)

\* getHeightAtPoint(point) on the height map hm, point = <<world x, world z>>:
\* the indices and samples read, the interpolated height and the value
\* returned (the mesh, the renderer and the target exist after construction)
HeightSample(hm, p) ==
  LET lx == p[1].n - PosX * SC
      ly == -(p[2].n - PosZ * SC)
      dx == 2 * SizeX * SC
      dy == 2 * SizeY * SC
      fx == GridCoord(ClampUnit(2 * lx + SizeX * SC, dx), SimW)
      fy == GridCoord(ClampUnit(2 * ly + SizeY * SC, dy), SimH)
      x0 == fx \div dx
      y0 == fy \div dy
      x1 == MinI(x0 + 1, SimW - 1)
      y1 == MinI(y0 + 1, SimH - 1)
      readW == IF x1 > x0 THEN 2 ELSE 1
      readH == IF y1 > y0 THEN 2 ELSE 1
      h00 == ReadPixel(hm, x0, y0)
      h10 == ReadPixel(hm, x0 + readW - 1, y0)
      h01 == ReadPixel(hm, x0, y0 + readH - 1)
      h11 == ReadPixel(hm, x0 + readW - 1, y0 + readH - 1)
      tx == IF readW > 1 THEN fx - x0 * dx ELSE 0
      ty == IF readH > 1 THEN fy - y0 * dy ELSE 0
      hx0 == Lerp(h00, h10, tx, dx)
      hx1 == Lerp(h01, h11, tx, dx)
      heightValue == Lerp(hx0, hx1, ty, dy)
      baseY == F(PosY * SC)
      displacement == Mul(heightValue, DisplacementScale)
  IN [xs |-> x0 .. x0 + readW - 1, ys |-> y0 .. y0 + readH - 1,
      samples |-> {h00, h10, h01, h11},
      heightValue |-> heightValue,
      baseY |-> baseY,
      result |-> IF NumberIsFinite(heightValue) THEN Add(baseY, Mul(displacement, NormalY))
                 ELSE baseY]

\* getHeightAtPoint(point): reads the current render target, changes nothing
GetHeightAtPoint(p) ==
  /\ impl = "CompWaterPBR"
  /\ ret' = {HeightSample(heightmap, p).result.n}
  /\ lastOp' = [op |-> "getHeightAtPoint", arg |-> [point |-> p]]
  /\ UNCHANGED <<impl, peer, tmp, world, health, scene, alt, pass, body, upd, heightmap, simTime, mousePos, mouseSize, splashStrength, pw, rw,
                 planeWaves, radialWaves, rwWrite, nCalls, nSteps, nRadial, forced>>

\* the world position of grid node c: u = i / (width - 1), v = j / (height - 1)
NodePoint(c) ==
  <<F(PosX * SC + (c[1] * SizeX * SC) \div (SimW - 1) - (SizeX * SC) \div 2),
    F(PosZ * SC - ((c[2] * SizeY * SC) \div (SimH - 1) - (SizeY * SC) \div 2))>>
\* the grid nodes whose position the fixed-point numbers hold exactly
Nodes ==
  {c \in Cells : /\ (c[1] * SizeX * SC) % (SimW - 1) = 0
                 /\ (c[2] * SizeY * SC) % (SimH - 1) = 0}
\* a world point off the plane's extents
IsOutside(p) ==
  \/ 2 * Abs(p[1].n - PosX * SC) > SizeX * SC
  \/ 2 * Abs(p[2].n - PosZ * SC) > SizeY * SC
\* points beyond each edge and corner, and points between nodes
OutsidePoints ==
  {<<F((PosX - SizeX) * SC), F(PosZ * SC)>>,
   <<F((PosX + SizeX) * SC), F((PosZ + 2 * SizeY) * SC)>>,
   <<F(PosX * SC + 70), F((PosZ - SizeY) * SC)>>,
   <<F(PosX * SC + (SizeX * SC) \div 2 + 1), F(PosZ * SC - 130)>>}
InsidePoints == {<<F(PosX * SC + 70), F(PosZ * SC - 130)>>}

QueryInputs ==
  [plane |-> {PlaneB}, radial |-> {RadialA}, splash |-> {SplashD, SplashL, SplashRing}, ids |-> {0},
   dts |-> {Lit(1, 2)}, hits |-> {NoHit},
   points |-> {NodePoint(c) : c \in Nodes} \cup OutsidePoints \cup InsidePoints,
   maxCalls |-> MaxQueryCalls, maxSteps |-> MaxSteps]

HeightAtOp(In) == \E p \in In.points : GetHeightAtPoint(p)

\* every operation of CompWaterPBR and GPGPUWaterPBR, height queries included
NextQuery ==
  \/ NextOf(QueryInputs)
  \/ HeightAtOp(QueryInputs)

SpecQuery == Init /\ [][NextQuery]_vars

\* the last call was getHeightAtPoint at the world position of grid node c
QueriedNode(c) == lastOp.op = "getHeightAtPoint" /\ lastOp.arg.point = NodePoint(c)
\* the last call was getHeightAtPoint at a point off the plane's extents
QueriedOutside == lastOp.op = "getHeightAtPoint" /\ IsOutside(lastOp.arg.point)
LastSample == HeightSample(heightmap, lastOp.arg.point)
\* base + h * displacementScale * normalY
SurfaceY(h) == Add(F(PosY * SC), Mul(Mul(h, DisplacementScale), NormalY))

\* C12 as the specification states it: getHeightAtPoint at the world position
\* of a grid node returns that node's raw stored height.
C12_NodeQueryReturnsRawHeight ==
  \A c \in Nodes : QueriedNode(c) => ret = {heightmap[c].h.n}

\* C12: getHeightAtPoint at the world position of a grid node (i, j), the last
\* row and column included, interpolates to exactly that node's stored height h
\* and returns the resting height plus h * displacementScale * normalY.
C12_NodeQueryIsExact ==
  \A c \in Nodes :
    QueriedNode(c) =>
      /\ LastSample.heightValue = heightmap[c].h
      /\ ret = {SurfaceY(heightmap[c].h).n}

\* a query at the last node of the last row, whose height differs from its
\* neighbours' and from the value returned
C12_QueriedLastNode ==
  /\ QueriedNode(<<SimW - 1, SimH - 1>>)
  /\ heightmap[<<SimW - 1, SimH - 1>>].h # heightmap[<<SimW - 2, SimH - 1>>].h
  /\ heightmap[<<SimW - 1, SimH - 1>>].h # heightmap[<<SimW - 1, SimH - 2>>].h
  /\ ret # {heightmap[<<SimW - 1, SimH - 1>>].h.n}

SampleMin(S) == CHOOSE m \in S : \A x \in S : m.n <= x.n
SampleMax(S) == CHOOSE m \in S : \A x \in S : m.n >= x.n

\* the indices read lie on the grid and the interpolated height lies between
\* the smallest and the largest sample read
SampleInRange(q) ==
  /\ q.xs \subseteq 0 .. SimW - 1
  /\ q.ys \subseteq 0 .. SimH - 1
  /\ SampleMin(q.samples).n <= q.heightValue.n
  /\ q.heightValue.n <= SampleMax(q.samples).n

\* C13 as the specification states it: for a point outside the plane's
\* extents every index read lies on the grid and the displacement returned (the
\* value returned less the resting height) lies between the minimum and the
\* maximum of the samples read.
C13_OutsideQueryDisplacementInRange ==
  QueriedOutside =>
    /\ LastSample.xs \subseteq 0 .. SimW - 1
    /\ LastSample.ys \subseteq 0 .. SimH - 1
    /\ \A r \in ret :
         /\ SampleMin(LastSample.samples).n <= r - PosY * SC
         /\ r - PosY * SC <= SampleMax(LastSample.samples).n

\* C13: for a point outside the plane's extents getHeightAtPoint reads only
\* indices in [0, W-1] x [0, H-1], on the edge the point is clamped to; the
\* interpolated height lies between the minimum and the maximum of the samples
\* read, and the value returned is the resting height plus that height times
\* displacementScale * normalY.
C13_OutsideQueryIsClamped ==
  QueriedOutside =>
    /\ SampleInRange(LastSample)
    /\ ret = {SurfaceY(LastSample.heightValue).n}
    /\ 2 * (lastOp.arg.point[1].n - PosX * SC) > SizeX * SC => LastSample.xs = {SimW - 1}
    /\ 2 * (PosX * SC - lastOp.arg.point[1].n) > SizeX * SC => 0 \in LastSample.xs
    /\ 2 * (PosZ * SC - lastOp.arg.point[2].n) > SizeY * SC => LastSample.ys = {SimH - 1}
    /\ 2 * (lastOp.arg.point[2].n - PosZ * SC) > SizeY * SC => 0 \in LastSample.ys

\* a query beyond an edge that interpolated between two different samples
C13_QueriedBeyondEdge ==
  /\ QueriedOutside
  /\ Cardinality(LastSample.samples) > 1
  /\ LastSample.heightValue # F(0)

----------------------------------------------------------------------------
(* Who writes the height field *)

\* the uniforms the step recorded in lastOp' read, as the calls before it left
\* them
UniformsRead == StepUniforms(lastOp'.arg.dt, lastOp'.arg.hit)

\* C15: only a step changes the height field. getHeightAtPoint, splash, the
\* pointer listeners, addPlaneWave, addRadialWave, disableRadialWave and
\* clearWaves leave every cell's height and velocity unchanged, and the step
\* that follows computes the field from the registry and the splash as those
\* calls left them.
C15_OnlyStepChangesField ==
  [][/\ lastOp'.op # "step" => heightmap' = heightmap
     /\ lastOp'.op = "step" =>
          \E u \in ClampNaNOutcomes : heightmap' = Compute(heightmap, UniformsRead, u)]_vars

\* a second step that consumed a splash made after the first one, on a field
\* no longer flat
C15_SteppedAfterSplash ==
  /\ impl = "CompWaterPBR"
  /\ lastOp.op = "step"
  /\ nSteps = 2
  /\ lastOp.arg.strength # F(0)
  /\ heightmap # Seed

----------------------------------------------------------------------------
(* gpu.compute() texel by texel *)

\* the sampler 'heightmap' bound to the target under construction
SamplerOnAlternate == alt
\* what the sampler 'heightmap' of HEIGHT_FS is bound to during the pass: the
\* current render target of the variable's dependency, varHeight itself
Sampler == heightmap

\* compUpdate / update up to the start of gpu.compute(): the uniforms are set
BeginCompute(dt, hit, u) ==
  /\ ~pass.busy
  /\ pass' = [busy |-> TRUE, done |-> {}, u |-> u, U |-> StepUniforms(dt, hit)]
  /\ simTime' = Add(simTime, dt)
  /\ lastOp' = [op |-> "compute", arg |-> [dt |-> dt, hit |-> hit]]
  /\ UNCHANGED <<impl, peer, tmp, world, health, scene, body, upd, heightmap, alt, mousePos, mouseSize, splashStrength, pw, rw,
                 planeWaves, radialWaves, rwWrite, ret, nCalls, nSteps, nRadial, forced>>

\* one invocation of HEIGHT_FS: gl_FragColor of texel c goes to the alternate
\* target
ShadeTexel(c) ==
  /\ pass.busy
  /\ c \notin pass.done
  /\ alt' = [alt EXCEPT ![c] = HEIGHT_FS(Sampler, pass.U, c[1], c[2], pass.u)]
  /\ pass' = [pass EXCEPT !.done = @ \cup {c}]
  /\ UNCHANGED <<impl, peer, tmp, world, health, scene, body, upd, heightmap, simTime, mousePos, mouseSize, splashStrength, pw, rw,
                 planeWaves, radialWaves, rwWrite, ret, lastOp, nCalls, nSteps, nRadial,
                 forced>>

\* the end of gpu.compute(), every texel shaded: the targets change roles; then
\* the rest of compUpdate / update, the one-frame impulse reset
EndCompute ==
  /\ pass.busy
  /\ pass.done = Cells
  /\ heightmap' = alt
  /\ alt' = heightmap
  /\ pass' = [IdlePass EXCEPT !.U = pass.U, !.u = pass.u]
  /\ mousePos' = ImpulseReset.mousePos
  /\ splashStrength' = ImpulseReset.splashStrength
  /\ nSteps' = nSteps + 1
  /\ forced' = (forced \/ Active(pass.U))
  /\ lastOp' = [op |-> "step", arg |-> [dt |-> pass.U.delta, hit |-> NoHit,
                                        strength |-> pass.U.splashStrength]]
  /\ UNCHANGED <<impl, peer, tmp, world, health, scene, body, upd, simTime, mouseSize, pw, rw, planeWaves, radialWaves, rwWrite, ret,
                 nCalls, nRadial>>

CellInputs ==
  [radial |-> {RadialA}, splash |-> {SplashD}, dts |-> {Lit(1, 2)},
   points |-> {NodePoint(<<0, 0>>), <<F(PosX * SC + 70), F(PosZ * SC - 130)>>},
   maxCalls |-> MaxQueryCalls, maxSteps |-> MaxPasses]

BeginComputeOp(In) ==
  /\ nSteps < In.maxSteps
  /\ \E dt \in In.dts : BeginCompute(dt, NoHit, "nan")
ShadeTexelOp == \E c \in Cells : ShadeTexel(c)

\* a step shaded texel by texel in any order, with getHeightAtPoint reading
\* the current target at any moment of it
NextCells ==
  \/ ~pass.busy /\ AddRadialWaveOp(CellInputs)
  \/ ~pass.busy /\ SplashOp(CellInputs)
  \/ BeginComputeOp(CellInputs)
  \/ ShadeTexelOp
  \/ EndCompute
  \/ HeightAtOp(CellInputs)

SpecCells == Init /\ [][NextCells]_vars

----------------------------------------------------------------------------
(* CompBuoyancy: numbers are finite here and kept as fixed-point integers *)

\* a * b and a / b (b > 0) on fixed-point integers
MulI(a, b) == Quot(a * b, SC)
DivI(a, b) == Quot(a * SC, b)
\* no clamp
Unclamped(x, lo, hi) == x
\* THREE.MathUtils.clamp
ClampF(x, lo, hi) == MaxI(lo, MinI(hi, x))
\* Vector3: cross, length, add, scale
Cross(a, b) ==
  <<MulI(a[2], b[3]) - MulI(a[3], b[2]),
    MulI(a[3], b[1]) - MulI(a[1], b[3]),
    MulI(a[1], b[2]) - MulI(a[2], b[1])>>
Length3(a) == ISqrt(a[1] * a[1] + a[2] * a[2] + a[3] * a[3])
Add3(a, b) == <<a[1] + b[1], a[2] + b[2], a[3] + b[3]>>
Scale3(a, k) == <<MulI(a[1], k), MulI(a[2], k), MulI(a[3], k)>>
\* Vector3.clampLength(0, max)
ClampLength(a, max) ==
  LET Clamped(len) ==
        IF len > max THEN <<DivI(MulI(a[1], max), len), DivI(MulI(a[2], max), len),
                            DivI(MulI(a[3], max), len)>>
        ELSE a
  IN Clamped(Length3(a))
\* Vector3.applyQuaternion: v + w * t + q x t with t = 2 * (q x v)
ApplyQuaternion(v, q) ==
  LET qv == <<q[1], q[2], q[3]>>
      t == Scale3(Cross(qv, v), 2 * SC)
  IN Add3(Add3(v, Scale3(t, q[4])), Cross(qv, t))
\* Quaternion.setFromAxisAngle
SetFromAxisAngle(axis, angle) ==
  LET half == angle \div 2
      sn == Sin(F(half)).n
      cs == Sin(F(half + Pi \div 2)).n
  IN <<MulI(axis[1], sn), MulI(axis[2], sn), MulI(axis[3], sn), cs>>
\* Quaternion.multiply
MultiplyQuat(a, b) ==
  <<MulI(a[1], b[4]) + MulI(a[4], b[1]) + MulI(a[2], b[3]) - MulI(a[3], b[2]),
    MulI(a[2], b[4]) + MulI(a[4], b[2]) + MulI(a[3], b[1]) - MulI(a[1], b[3]),
    MulI(a[3], b[4]) + MulI(a[4], b[3]) + MulI(a[1], b[2]) - MulI(a[2], b[1]),
    MulI(a[4], b[4]) - MulI(a[1], b[1]) - MulI(a[2], b[2]) - MulI(a[3], b[3])>>
\* Quaternion.normalize
NormalizeQuat(a) ==
  LET len == ISqrt(a[1] * a[1] + a[2] * a[2] + a[3] * a[3] + a[4] * a[4])
  IN IF len = 0 THEN <<0, 0, 0, SC>>
     ELSE <<DivI(a[1], len), DivI(a[2], len), DivI(a[3], len), DivI(a[4], len)>>

\* the constructor's defaults: density, volume, drag coefficients, gravity.y
Density == Lit(1, 2).n
Volume == SC
DragCoefficient == Lit(3, 4).n
AngularDragCoefficient == Lit(3, 4).n
GravityY == Lit(-981, 100).n
\* the 9.81 of the buoyancy and spring forces
WaterG == Lit(981, 100).n
\* the 1e-3 floors of perProbeVolume, mass and inertia
Floor3 == Lit(1, 1000).n
\* object3D's world x and z: the body floats above the plane's centre
BodyX == PosX * SC
BodyZ == PosZ * SC

\* _leverArm taken from the world origin
LeverArmFromOrigin(probeWorld, objectWorld) == probeWorld
\* _leverArm.copy(_probeWorld).sub(_objectWorld)
LeverArm(probeWorld, objectWorld) ==
  <<probeWorld[1] - objectWorld[1], probeWorld[2] - objectWorld[2],
    probeWorld[3] - objectWorld[3]>>

\* the integrator's upward force without the displacement spring
SpringForceProbesOnly(buoyancyForceY, clampedDisplacement) == buoyancyForceY
\* springForce = buoyancyForceY > 0 ? buoyancyForceY
\*                                  : clampedDisplacement * this.volume * 9.81
SpringForce(buoyancyForceY, clampedDisplacement) ==
  IF buoyancyForceY > 0 THEN buoyancyForceY
  ELSE MulI(MulI(clampedDisplacement, Volume), WaterG)

\* a body that splashes whether it moves or not
AtRestNever(velocityY) == FALSE
\* this._velocity.length() <= 0, the velocity being (0, velocityY, 0)
AtRest(velocityY) == Length3(<<0, velocityY, 0>>) <= 0

\* the sum of f[1] .. f[i]
RECURSIVE SumOf(_, _)
SumOf(f, i) == IF i = 0 THEN 0 ELSE f[i] + SumOf(f, i - 1)

\* what the probe loop has accumulated before its first probe
NoProbes ==
  [accumulatedHeight |-> 0, validCount |-> 0, totalBuoyancy |-> 0,
   torque |-> <<0, 0, 0>>, depths |-> <<>>]

\* a water whose getHeightAtPoint returns W.east at the points east of the
\* body's centre and W.west elsewhere
HeightOf(W, p) == IF p[1].n > BodyX THEN W.east ELSE W.west
\* this.water.getHeightAtPoint(p), water being a simulated height map or a
\* water of given heights
WaterHeight(water, p) ==
  IF water.kind = "any" THEN HeightOf(water.of, p)
  ELSE HeightSample(water.of, p).result
\* the probe loop of compUpdate for the body b over this.water
ProbeLoop(b, water) ==
  LET n == Len(b.probes)
      objectWorld == <<BodyX, b.y, BodyZ>>
      perProbeVolume == MaxI(DivI(Volume, n * SC), Floor3)
      \* a probe whose water height is not finite is skipped
      Force(acc, probeWorld, waterHeight, depth, buoyancyForceY) ==
        [accumulatedHeight |-> acc.accumulatedHeight + waterHeight,
         validCount |-> acc.validCount + 1,
         totalBuoyancy |-> acc.totalBuoyancy + buoyancyForceY,
         torque |-> Add3(acc.torque, Cross(LeverArm(probeWorld, objectWorld),
                                           <<0, buoyancyForceY, 0>>)),
         depths |-> Append(acc.depths, depth)]
      Submerge(acc, probeWorld, waterHeight, depth) ==
        Force(acc, probeWorld, waterHeight, depth,
              IF depth > 0
              THEN MulI(MulI(MinI(MaxI(depth, 0), perProbeVolume), Volume), WaterG)
              ELSE 0)
      Sample(acc, probeWorld, waterHeight) ==
        IF NumberIsFinite(waterHeight)
        THEN Submerge(acc, probeWorld, waterHeight.n, waterHeight.n - probeWorld[2])
        ELSE [acc EXCEPT !.depths = Append(acc.depths, 0)]
      Probe(acc, probeWorld) ==
        Sample(acc, probeWorld, WaterHeight(water, <<F(probeWorld[1]), F(probeWorld[3])>>))
      RECURSIVE Loop(_)
      Loop(i) ==
        IF i = 0 THEN NoProbes
        ELSE Probe(Loop(i - 1), Add3(objectWorld, ApplyQuaternion(b.probes[i], b.q)))
  IN Loop(n)

\* _applyForces(avgWaterHeight, buoyancyForceY, torque, dt) on the body b
ApplyForces(b, avgWaterHeight, buoyancyForceY, torque, dt) ==
  LET mass == MaxI(MulI(Density, Volume), Floor3)
      inertia == MaxI(Volume, Floor3)
      angularDamping == MaxI(0, SC - MulI(AngularDragCoefficient, dt))
      Turn(w, angularSpeed) ==
        IF angularSpeed > Lit(1, 100000).n
        THEN NormalizeQuat(MultiplyQuat(b.q,
               SetFromAxisAngle(<<DivI(w[1], angularSpeed), DivI(w[2], angularSpeed),
                                  DivI(w[3], angularSpeed)>>,
                                MulI(angularSpeed, dt))))
        ELSE b.q
      Rotate(springForce, damping, vy, w) ==
        [body |-> [b EXCEPT !.vy = vy, !.y = b.y + MulI(vy, dt), !.w = w,
                            !.q = Turn(w, Length3(w)), !.dragForce = -damping],
         springForce |-> springForce]
      Integrate(springForce, damping) ==
        Rotate(springForce, damping,
               ClampF(b.vy + MulI(DivI(springForce - damping + MulI(GravityY, mass), mass),
                                  dt),
                      -20 * SC, 20 * SC),
               ClampLength(Scale3(Add3(b.w, Scale3(torque, DivI(dt, inertia))),
                                  angularDamping),
                           4 * Pi))
  IN Integrate(SpringForce(buoyancyForceY, MinI(MaxI(avgWaterHeight - b.y, 0), Volume)),
               MulI(DragCoefficient, b.vy))

\* GameObjectFactory.create with a CompBuoyancy component: probes, position.y
PlaceBody(probes, y) ==
  /\ impl = "CompWaterPBR"
  /\ ~body.placed
  /\ body' = [NoBody EXCEPT !.placed = TRUE, !.probes = probes, !.y = y]
  /\ lastOp' = [op |-> "CompBuoyancy", arg |-> [y |-> y]]
  /\ UNCHANGED <<impl, peer, tmp, world, health, scene, alt, pass, upd, heightmap, simTime, mousePos, mouseSize,
                 splashStrength, pw, rw, planeWaves, radialWaves, rwWrite, ret, nCalls,
                 nSteps, nRadial, forced>>

\* CompBuoyancy.compUpdate(dt) over this.water
CompUpdate(dt, water) ==
  /\ body.placed
  /\ Len(body.probes) # 0
  /\ \E loop \in {ProbeLoop(body, water)} :
       IF loop.validCount = 0
       THEN /\ body' = [body EXCEPT !.buoyancyForce = 0]
            /\ upd' = [n |-> upd.n + 1, dt |-> dt, depths |-> loop.depths,
                       valid |-> 0, total |-> loop.totalBuoyancy,
                       torque |-> loop.torque, avg |-> 0, y |-> body.y, spring |-> 0,
                       integrated |-> FALSE, splashed |-> FALSE]
            /\ UNCHANGED <<mousePos, mouseSize, splashStrength>>
       ELSE \E avgWaterHeight \in {Quot(loop.accumulatedHeight, loop.validCount)} :
            \E applied \in {ApplyForces(body, avgWaterHeight, loop.totalBuoyancy,
                                        loop.torque, dt)} :
            \E splashed \in {~AtRest(applied.body.vy)} :
            \E splash \in {SplashUniforms([x |-> F(BodyX), z |-> F(BodyZ),
                             size |-> F(2 * SC),
                             strength |-> F(MulI(MulI(applied.body.vy, applied.body.vy),
                                                 10 * SC)),
                             coords |-> "world"])} :
              /\ body' = [applied.body EXCEPT !.buoyancyForce = loop.totalBuoyancy]
              /\ mousePos' = IF splashed THEN splash.mousePos ELSE mousePos
              /\ mouseSize' = IF splashed THEN splash.mouseSize ELSE mouseSize
              /\ splashStrength' = IF splashed THEN splash.splashStrength
                                   ELSE splashStrength
              /\ upd' = [n |-> upd.n + 1, dt |-> dt, depths |-> loop.depths,
                         valid |-> loop.validCount, total |-> loop.totalBuoyancy,
                         torque |-> loop.torque, avg |-> avgWaterHeight, y |-> body.y,
                         spring |-> applied.springForce, integrated |-> TRUE,
                         splashed |-> splashed]
  /\ lastOp' = [op |-> "buoyancy", arg |-> [dt |-> dt]]
  /\ UNCHANGED <<impl, peer, tmp, world, health, scene, alt, pass, heightmap, simTime, pw, rw, planeWaves, radialWaves,
                 rwWrite, ret, nCalls, nSteps, nRadial, forced>>

\* compUpdate(dt) of a body whose water is the CompWaterPBR instance
BuoyancyUpdate(dt) == CompUpdate(dt, [kind |-> "map", of |-> heightmap])

\* probes and starting heights: Scenario C's four symmetric probes 1 unit
\* below the resting water, the same body dropped from above the water, a body
\* probed on its deck, a body probed at its centre floating in equilibrium, a
\* body probed on one side
FourProbes == <<<<SC, 0, 0>>, <<-SC, 0, 0>>, <<0, 0, SC>>, <<0, 0, -SC>>>>
DeckProbes == <<<<-SC, SC \div 2, 0>>, <<SC, SC \div 2, 0>>>>
Bodies ==
  {[probes |-> FourProbes, y |-> (PosY - 1) * SC],
   [probes |-> FourProbes, y |-> (PosY + 2) * SC],
   [probes |-> DeckProbes, y |-> PosY * SC - SC \div 4],
   [probes |-> <<<<0, 0, 0>>>>, y |-> PosY * SC - SC \div 2],
   [probes |-> <<<<SC, 0, 0>>>>, y |-> (PosY - 1) * SC]}

BuoyInputs ==
  [bodies |-> Bodies, dts |-> {Lit(1, 10), Lit(1, 2)}, hits |-> {NoHit},
   maxUpdates |-> MaxUpdates, maxSteps |-> MaxBuoySteps]

PlaceBodyOp(In) == \E b \in In.bodies : PlaceBody(b.probes, b.y)
BuoyancyUpdateOp(In) ==
  /\ upd.n < In.maxUpdates
  /\ \E dt \in In.dts : BuoyancyUpdate(dt.n)

\* a CompBuoyancy body on a CompWaterPBR water, both updated frame by frame
NextBuoy ==
  \/ PlaceBodyOp(BuoyInputs)
  \/ BuoyancyUpdateOp(BuoyInputs)
  \/ StepOp(BuoyInputs)

SpecBuoy == Init /\ [][NextBuoy]_vars

\* the last call was CompBuoyancy.compUpdate and it reached _applyForces
Updated == lastOp.op = "buoyancy" /\ upd.integrated
\* no probe of the last update was submerged
NoneSubmerged == \A i \in DOMAIN upd.depths : upd.depths[i] <= 0

\* C16 as the specification states it: when no probe is submerged, the upward
\* water force used to integrate the body's vertical velocity is 0.
C16_NoSubmergedProbeNoWaterForce ==
  Updated /\ NoneSubmerged => upd.spring = 0

\* C16: when no probe is submerged, compUpdate reports a buoyancy force of 0
\* and accumulates no torque, and the upward force it integrates is the
\* displacement spring min(max(avgWaterHeight - position.y, 0), volume) *
\* volume * 9.81: 0 when the body's origin is at or above the average water
\* height at its probes, positive when the origin is below it.
C16_NoSubmergedProbeSpringOnly ==
  Updated /\ NoneSubmerged =>
    /\ body.buoyancyForce = 0
    /\ upd.total = 0
    /\ upd.torque = <<0, 0, 0>>
    /\ upd.spring = MulI(MulI(ClampF(upd.avg - upd.y, 0, Volume), Volume), WaterG)
    /\ upd.avg <= upd.y => upd.spring = 0
    /\ upd.avg > upd.y => upd.spring > 0

\* an update of a body whose probes are all above the water while its origin
\* is below it
C16_ProbesDryOriginWet ==
  /\ Updated
  /\ NoneSubmerged
  /\ upd.avg > upd.y

\* probes arranged symmetrically about the body's centre: with every probe
\* its mirror image
Symmetric(probes) ==
  \A i \in DOMAIN probes : \E j \in DOMAIN probes :
    probes[j] = <<-probes[i][1], -probes[i][2], -probes[i][3]>>
\* every probe of the last update was submerged, all by the same depth
EquallySubmerged ==
  /\ upd.depths # <<>>
  /\ \A i \in DOMAIN upd.depths : upd.depths[i] > 0 /\ upd.depths[i] = upd.depths[1]
\* a flat water surface
Flat == \A c \in Cells : heightmap[c].h = heightmap[<<0, 0>>].h

\* C17: for a body whose probes are arranged symmetrically about its centre
\* and are all submerged by the same depth under a flat water surface, one
\* update accumulates zero net torque and a strictly positive upward buoyant
\* force.
C17_SymmetricSubmersionNoTorque ==
  Updated /\ Symmetric(body.probes) /\ EquallySubmerged /\ Flat =>
    /\ upd.torque = <<0, 0, 0>>
    /\ upd.total > 0
    /\ body.buoyancyForce = upd.total

\* Scenario C: four symmetric probes, each 1 unit below the flat water
C17_ScenarioC ==
  /\ Updated
  /\ body.probes = FourProbes
  /\ Flat
  /\ \A i \in DOMAIN upd.depths : upd.depths[i] = SC

\* C18 as the specification states it: an update in which the body has no
\* submerged probe, or is at rest, issues no splash.
C18_NoSplashUnlessSubmergedAndMoving ==
  lastOp.op = "buoyancy" /\ (NoneSubmerged \/ body.vy = 0) => ~upd.splashed

\* C18: compUpdate issues a feedback splash exactly when some probe returned a
\* finite water height and the body's velocity after the integration is not
\* zero, whether or not a probe is submerged; the splash is at the body's world
\* x and z with size 2 and strength |velocity|^2 * 10. An update that leaves
\* the body at rest issues no splash.
C18_SplashWheneverMoving ==
  lastOp.op = "buoyancy" =>
    /\ upd.splashed <=> (upd.integrated /\ body.vy # 0)
    /\ upd.splashed =>
         /\ mousePos = WorldToLocalXY(F(BodyX), F(BodyZ))
         /\ mouseSize = F(2 * SC)
         /\ splashStrength = F(MulI(MulI(body.vy, body.vy), 10 * SC))

\* a body falling above the water, no probe submerged, that splashed
C18_SplashedWhileAirborne ==
  /\ Updated
  /\ NoneSubmerged
  /\ upd.avg <= upd.y
  /\ upd.splashed
  /\ splashStrength # F(0)

----------------------------------------------------------------------------
(* Settling after clearWaves *)

SettleInputs ==
  [radial |-> {RadialA}, dts |-> {Lit(1, 5), Lit(1, 2)}, hits |-> {NoHit},
   maxCalls |-> 1, maxSteps |-> MaxWaveFrames + MaxSettleSteps]

\* a render loop with a steady frame time: every frame has the dt of the first
SteadyStep(In) ==
  /\ nSteps < In.maxSteps
  /\ \E dt \in In.dts :
       /\ dt.n * nSteps = simTime.n
       /\ Step(dt, NoHit, "nan")

\* addRadialWave, up to MaxWaveFrames frames, clearWaves, then frames only
NextSettle ==
  \/ nCalls = 0 /\ AddRadialWaveOp(SettleInputs)
  \/ nCalls = 1 /\ nSteps < MaxWaveFrames /\ SteadyStep(SettleInputs)
  \/ nCalls = 1 /\ nSteps > 0 /\ ClearWaves
  \/ nCalls = 2 /\ SteadyStep(SettleInputs)

SpecSettle == Init /\ [][NextSettle]_vars

\* every cell's height within Eps of the rest baseline 0
Settled == \A c \in Cells : IsNum(heightmap[c].h) /\ Abs(heightmap[c].h.n) <= Eps
\* clearWaves has been called and at least SettleBound frames stepped since
LongCleared == nCalls = 2 /\ nSteps >= MaxWaveFrames + SettleBound

\* C19: after a radial wave has been added and stepped and clearWaves called,
\* SettleBound further steps with no source and no splash bring every cell's
\* height within Eps of 0, and it stays there.
C19_SettlesAfterClear == LongCleared => Settled

\* the same for frames of 0.2 s only, for which the integration is stable on
\* this grid
C19_SettlesAtSmallDt ==
  LongCleared /\ simTime.n = Lit(1, 5).n * nSteps => Settled

----------------------------------------------------------------------------
(* The splash kernel *)

\* the sum over all texels of the velocity impulse (1 - 50 r2) * g *
\* splashStrength that a step with the uniforms U injects
ImpulseSum(U) ==
  SumOf([k \in 1 .. SimW * SimH |-> Impulse(U, (k - 1) % SimW, (k - 1) \div SimW).n],
        SimW * SimH)
\* the texel at the plane's centre
Centre == <<SimW \div 2, SimH \div 2>>
\* a splash is pending at the centre of a flat field at rest with no source
SplashAtCentrePending ==
  /\ heightmap = Seed
  /\ NoSourceStored
  /\ mousePos = <<F(0), F(0)>>
  /\ splashStrength # F(0)
\* the next state is the one after a step with dt > 0 and no pointer hit
SteppedForward ==
  /\ lastOp'.op = "step"
  /\ lastOp'.arg.hit = NoHit
  /\ lastOp'.arg.dt.n > 0

\* C20: a splash of strength S # 0 at the centre of a flat field changes the
\* height at the injection cell after one step with dt > 0, and the sum of the
\* velocity impulse over the cells is approximately zero (within a tenth of
\* |S|): the splash adds no net volume.
C20_SplashIsZeroMean ==
  [][SplashAtCentrePending /\ SteppedForward =>
       /\ heightmap'[Centre].h # F(0)
       /\ 10 * Abs(ImpulseSum(StepUniforms(lastOp'.arg.dt, NoHit))) <= Abs(splashStrength.n)]_vars

\* the first half alone: the height at the injection cell changes
C20_SplashMovesCentre ==
  [][SplashAtCentrePending /\ SteppedForward => heightmap'[Centre].h # F(0)]_vars

\* a step that consumed a splash at the centre whose impulse is positive at
\* the centre texel and negative on the texels next to it
C20_RingSampled ==
  /\ lastOp.op = "step"
  /\ nSteps = 1
  /\ nCalls = 1
  /\ lastOp.arg.strength = SplashRing.strength
  /\ heightmap[Centre].v.n > 0
  /\ heightmap[<<SimW \div 2 - 1, SimH \div 2>>].v.n < 0

----------------------------------------------------------------------------
(* Two water instances *)

\* the fields of the instance the methods are running on, as one record
ThisWater ==
  [heightmap |-> heightmap, simTime |-> simTime, mousePos |-> mousePos,
   mouseSize |-> mouseSize, splashStrength |-> splashStrength, pw |-> pw, rw |-> rw,
   planeWaves |-> planeWaves, radialWaves |-> radialWaves, rwWrite |-> rwWrite]

\* a counter kept at module level: the same for every instance
ModuleLevel(own, shared) == shared
\* a counter kept as this.simTime / this._rwWrite: the instance's own
Field(own, shared) == own

\* the next call is made on the other instance: `this` and its uniforms now
\* denote that instance's fields; _tmp is the module's and stays as it is
Bind ==
  /\ peer' = ThisWater
  /\ heightmap' = peer.heightmap
  /\ simTime' = Field(peer.simTime, simTime)
  /\ rwWrite' = Field(peer.rwWrite, rwWrite)
  /\ mousePos' = peer.mousePos
  /\ mouseSize' = peer.mouseSize
  /\ splashStrength' = peer.splashStrength
  /\ pw' = peer.pw
  /\ rw' = peer.rw
  /\ planeWaves' = peer.planeWaves
  /\ radialWaves' = peer.radialWaves
  /\ lastOp' = [op |-> "bind", arg |-> [none |-> 0]]
  /\ UNCHANGED <<impl, tmp, world, health, scene, alt, pass, body, upd, ret, nCalls,
                 nSteps, nRadial, forced>>

TwoInputs ==
  [plane |-> {PlaneB}, radial |-> {RadialA}, splash |-> {SplashD}, ids |-> {0},
   dts |-> {Lit(1, 2)}, hits |-> {NoHit},
   maxCalls |-> MaxTwoCalls, maxSteps |-> MaxTwoSteps]

\* two instances of one class, called in any order
NextTwo ==
  \/ NextOf(TwoInputs)
  \/ Bind

SpecTwo == Init /\ [][NextTwo]_vars

\* the clock, the ring cursor, the wave slots and the pending splash of W
Owned(W) ==
  [simTime |-> W.simTime, rwWrite |-> W.rwWrite, pw |-> W.pw, rw |-> W.rw,
   mousePos |-> W.mousePos, mouseSize |-> W.mouseSize,
   splashStrength |-> W.splashStrength]

\* C21: a call on one water instance leaves the other instance's clock, ring
\* cursor, wave slots and pending splash as they were, and when the calls move
\* to the other instance they find exactly what that instance was left with;
\* the pointer listener's splash lands where the pointer hit, whatever _tmp held
C21_InstancesDoNotInterfere ==
  [][ /\ lastOp'.op = "bind" =>
           /\ Owned(peer') = Owned(ThisWater)
           /\ Owned(ThisWater)' = Owned(peer)
      /\ lastOp'.op # "bind" => Owned(peer') = Owned(peer)
      /\ lastOp'.op = "pointermove" =>
           mousePos' = WorldToLocalXY(lastOp'.arg.p[1], lastOp'.arg.p[2]) ]_vars

\* one instance has stepped and holds a radial wave, the other has stepped
\* further and the last call was a step on it
C21_BothInstancesUsed ==
  /\ lastOp.op = "step"
  /\ peer.simTime.n > 0
  /\ peer.rwWrite > 0
  /\ simTime.n > peer.simTime.n
  /\ rwWrite = 0

----------------------------------------------------------------------------
(* Several splashes before one step *)

\* the position and the strength the splash call a asks for
AskedPos(a) == IF a.coords = "local" THEN <<a.x, a.z>> ELSE WorldToLocalXY(a.x, a.z)
AskedStrength(a) == Default(a.strength, F(SC))
\* a step without a pointer hit that follows a splash call
StepAfterSplash ==
  lastOp.op = "splash" /\ lastOp'.op = "step" /\ lastOp'.arg.hit = NoHit

\* C25 as stated: the step after several splash calls reads the position, the
\* radius and the strength of the last call alone (a call that names no radius
\* asking for the class's default: 20, or the constructor's mouseSize)
C25_StepAppliesLastSplashOnly ==
  [][StepAfterSplash =>
       /\ UniformsRead.mousePos = AskedPos(lastOp.arg)
       /\ UniformsRead.splashStrength = AskedStrength(lastOp.arg)
       /\ UniformsRead.mouseSize =
            Default(lastOp.arg.size,
                    IF impl = "CompWaterPBR" THEN F(20 * SC) ELSE DefaultMouseSize)]_vars

\* C25 as the code has it: every splash call replaces the pending position and
\* strength and leaves the field alone; it replaces the pending radius when it
\* names one (CompWaterPBR's default, 20, counts), and GPGPUWaterPBR's splash
\* without a size keeps the radius pending from the calls before; the step
\* reads what is then pending
C25_LastSplashReplacesPending ==
  [][ /\ lastOp'.op = "splash" =>
           /\ mousePos' = AskedPos(lastOp'.arg)
           /\ splashStrength' = AskedStrength(lastOp'.arg)
           /\ mouseSize' = IF impl = "CompWaterPBR"
                           THEN Default(lastOp'.arg.size, F(20 * SC))
                           ELSE Default(lastOp'.arg.size, mouseSize)
           /\ heightmap' = heightmap
      /\ StepAfterSplash =>
           /\ UniformsRead.mousePos = mousePos
           /\ UniformsRead.splashStrength = splashStrength
           /\ UniformsRead.mouseSize = mouseSize ]_vars

\* GPGPUWaterPBR stepped after splash(.., 5, 100) and then splash(x, z): the
\* step ran with the second call's strength and the first call's radius
C25_SteppedAfterTwoSplashes ==
  /\ impl = "GPGPUWaterPBR"
  /\ lastOp.op = "step"
  /\ nCalls = 2
  /\ lastOp.arg.strength = AskedStrength(SplashL)
  /\ mouseSize = SplashD.size

----------------------------------------------------------------------------
(* CompBuoyancy over any water heights *)

\* heights far above and far below every body, the resting height, no height
FarHeight == 1000
AnyHeights == {NaN, F(FarHeight * SC), F(-FarHeight * SC), F(PosY * SC)}
AnyWaters == [east : AnyHeights, west : AnyHeights]

AnyBuoyInputs ==
  [bodies |-> Bodies, waters |-> AnyWaters, dts |-> {F(0), Lit(1, 2), F(3 * SC)},
   maxUpdates |-> MaxAnyUpdates]

\* compUpdate(dt) over the water W
AnyUpdateOp(In) ==
  /\ upd.n < In.maxUpdates
  /\ \E dt \in In.dts, W \in In.waters :
       CompUpdate(dt.n, [kind |-> "any", of |-> W])

\* a CompBuoyancy body updated over waters of any heights
NextBuoyAny ==
  \/ PlaceBodyOp(AnyBuoyInputs)
  \/ AnyUpdateOp(AnyBuoyInputs)

SpecBuoyAny == Init /\ [][NextBuoyAny]_vars

\* the body's position, orientation and velocities
Motion(b) == [y |-> b.y, q |-> b.q, vy |-> b.vy, w |-> b.w]

\* C30: after every compUpdate the vertical velocity lies in [-20, 20] and the
\* angular velocity is at most 4 pi long, and an update in which no probe got a
\* finite water height leaves position, orientation and velocities as they were
C30_VelocitiesBounded ==
  /\ [](/\ body.vy >= -20 * SC
        /\ body.vy <= 20 * SC
        /\ Length3(body.w) <= 4 * Pi)
  /\ [][lastOp'.op = "buoyancy" /\ upd'.valid = 0 => Motion(body') = Motion(body)]_vars

\* a body falling at the clamped speed, updated over a water with no finite
\* height anywhere
C30_FallingOverNoWater ==
  /\ lastOp.op = "buoyancy"
  /\ upd.valid = 0
  /\ upd.n = 2
  /\ body.vy = -20 * SC

----------------------------------------------------------------------------
(* engine/World.js and engine/GameObject.js *)

\* every variable but world
notWorld ==
  <<impl, heightmap, simTime, mousePos, mouseSize, splashStrength, pw, rw, planeWaves,
    radialWaves, rwWrite, ret, lastOp, nCalls, nSteps, nRadial, forced, alt, pass, body,
    upd, peer, tmp, health, scene>>

Range(q) == {q[k] : k \in 1 .. Len(q)}
\* Set.prototype.add / delete on a Set kept in insertion order
SetAdd(q, x) == IF x \in Range(q) THEN q ELSE Append(q, x)
SetDelete(q, x) == SelectSeq(q, LAMBDA y : y # x)

\* World.add(obj), World.remove(obj)
WorldAdd(W, o) == [W EXCEPT !.toAdd = Append(@, o)]
WorldRemove(W, o) == [W EXCEPT !.toRemove = SetAdd(@, o)]
\* World.addToGroup(name, obj), World.removeFromGroup(name, obj)
AddToGroup(W, name, o) ==
  [W EXCEPT !.groups[name] = @ \cup {o}, !.obj[o].groups = @ \cup {name},
            !.obj[o].joinedDead = @ \/ ~W.obj[o].alive]
RemoveFromGroup(W, name, o) ==
  [W EXCEPT !.groups[name] = @ \ {o}, !.obj[o].groups = @ \ {name}]
\* "for (const name of names) removeFromGroup(name, obj)"
RECURSIVE RemoveFromGroups(_, _, _)
RemoveFromGroups(W, names, o) ==
  IF names = {} THEN W
  ELSE LET name == CHOOSE n \in names : TRUE
       IN RemoveFromGroups(RemoveFromGroup(W, name, o), names \ {name}, o)
RECURSIVE AddToGroups(_, _, _)
AddToGroups(W, names, o) ==
  IF names = {} THEN W
  ELSE LET name == CHOOSE n \in names : TRUE
       IN AddToGroups(AddToGroup(W, name, o), names \ {name}, o)

\* new GameObject(world, {groups}): id = _GO_ID++, alive, joins its groups,
\* world.add(this)
Construct(W, groups) ==
  LET o == W.goId
      made == [W EXCEPT !.goId = o + 1,
                        !.obj[o] = [NoObject EXCEPT !.created = TRUE, !.alive = TRUE,
                                      !.born = [frame |-> W.frame, pc |-> W.pc]]]
  IN WorldAdd(AddToGroups(made, groups, o), o)

\* GameObject.destroy(): alive = false, world.remove(this)
Destroy(W, o) == WorldRemove([W EXCEPT !.obj[o].alive = FALSE], o)
\* GameObject._destroyInternal(): onDestroy() and the disposal of body and mesh
DestroyInternal(W, o) == [W EXCEPT !.obj[o].nDestroyInternal = @ + 1]

\* a flush that starts every object it finds in toAdd
StartedNever(obj) == FALSE
\* obj._started
Started(obj) == obj.started

\* "// flush adds", one turn of its loop: objects.add(obj) and, unless
\* _started, _started = true and start()
FlushAdd(W) ==
  LET o == W.toAdd[W.i]
      added == [W EXCEPT !.objects = SetAdd(@, o), !.i = W.i + 1, !.last = "running"]
  IN IF Started(W.obj[o]) THEN [added EXCEPT !.hook = 0]
     ELSE [added EXCEPT !.hook = o, !.obj[o].started = TRUE, !.obj[o].nStart = @ + 1,
                        !.obj[o].startFrame = W.frame]

\* a loop that updates dead objects too
AliveAlways(obj) == TRUE
\* obj.alive
Alive(obj) == obj.alive

\* "// update all", one turn of its loop: a dead object goes to toRemove, a
\* live one gets update(dt)
UpdateObject(W) ==
  LET o == W.objects[W.i]
      turned == [W EXCEPT !.i = W.i + 1, !.last = "running"]
  IN IF ~Alive(W.obj[o]) THEN [WorldRemove(turned, o) EXCEPT !.hook = 0]
     ELSE [turned EXCEPT !.hook = o, !.obj[o].updated = TRUE,
                         !.obj[o].updatedUnstarted = @ \/ W.obj[o].nStart = 0,
                         !.obj[o].updatedDead = @ \/ ~W.obj[o].alive]

\* "// flush removes", one turn of its loop: _destroyInternal(), objects.delete,
\* removeFromGroup for every group of the object
FlushRemove(W) ==
  LET o == W.toRemove[W.i]
      gone == [DestroyInternal(W, o) EXCEPT !.objects = SetDelete(@, o), !.i = W.i + 1,
                                            !.hook = o, !.last = "running",
                                            !.obj[o].joinedDead = FALSE]
  IN RemoveFromGroups(gone, W.obj[o].groups, o)

\* World.update(dt) up to its first loop
BeginUpdate(W) ==
  [W EXCEPT !.frame = @ + 1, !.i = 1, !.hook = 0, !.last = "running",
            !.pc = IF Len(W.toAdd) # 0 THEN "adds" ELSE "loop"]
\* the "update all" loop is over: on to "flush removes", or return
EndLoop(W) ==
  IF Len(W.toRemove) # 0 THEN [W EXCEPT !.pc = "removes", !.i = 1, !.hook = 0]
  ELSE [W EXCEPT !.pc = "idle", !.i = 0, !.hook = 0, !.clearing = FALSE,
                 !.last = IF W.clearing THEN "clear" ELSE "update"]
\* World.update: the step after the last one taken
Advance(W) ==
  IF W.pc = "adds"
  THEN IF W.i <= Len(W.toAdd) THEN FlushAdd(W)
       ELSE [W EXCEPT !.toAdd = <<>>, !.pc = "loop", !.i = 1, !.hook = 0]
  ELSE IF W.pc = "loop"
  THEN IF W.i <= Len(W.objects) THEN UpdateObject(W) ELSE EndLoop(W)
  ELSE IF W.i <= Len(W.toRemove) THEN FlushRemove(W)
       ELSE [W EXCEPT !.toRemove = <<>>, !.pc = "idle", !.i = 0, !.hook = 0,
                      !.clearing = FALSE,
                      !.last = IF W.clearing THEN "clear" ELSE "update"]

\* "for (const obj of this.objects) obj.destroy()"
RECURSIVE DestroyAll(_, _)
DestroyAll(W, k) ==
  IF k > Len(W.objects) THEN W ELSE DestroyAll(Destroy(W, W.objects[k]), k + 1)
\* World.clear() up to the first loop of its update(0)
BeginClear(W) == BeginUpdate([DestroyAll(W, 1) EXCEPT !.clearing = TRUE])

\* the game's code runs between the frames and inside the hooks start(),
\* update(dt) and onDestroy() that World.update calls
InGameCode ==
  /\ world.pc = "idle" \/ world.hook # 0
  /\ world.calls < MaxGameCalls
\* what a call of the game's code leaves besides its effect
Call(W, name) == [W EXCEPT !.calls = @ + 1, !.last = name]
Created == {o \in ObjectIds : world.obj[o].created}

ConstructOp ==
  /\ InGameCode
  /\ world.goId <= MaxObjects
  /\ \E groups \in SUBSET GroupNames :
       world' = Call(Construct(world, groups), "new GameObject")
  /\ UNCHANGED notWorld
WorldAddOp ==
  /\ InGameCode
  /\ \E o \in Created : world' = Call(WorldAdd(world, o), "add")
  /\ UNCHANGED notWorld
DestroyOp ==
  /\ InGameCode
  /\ \E o \in Created : world' = Call(Destroy(world, o), "destroy")
  /\ UNCHANGED notWorld
AddToGroupOp ==
  /\ InGameCode
  /\ \E o \in Created, name \in GroupNames :
       world' = Call(AddToGroup(world, name, o), "addToGroup")
  /\ UNCHANGED notWorld
RemoveFromGroupOp ==
  /\ InGameCode
  /\ \E o \in Created, name \in GroupNames :
       world' = Call(RemoveFromGroup(world, name, o), "removeFromGroup")
  /\ UNCHANGED notWorld
UpdateOp ==
  /\ world.pc = "idle"
  /\ world.frame < MaxFrames
  /\ world' = BeginUpdate(world)
  /\ UNCHANGED notWorld
ClearOp3D ==
  /\ world.pc = "idle"
  /\ world.frame < MaxFrames
  /\ world' = BeginClear(world)
  /\ UNCHANGED notWorld
AdvanceOp ==
  /\ world.pc # "idle"
  /\ world' = Advance(world)
  /\ UNCHANGED notWorld

\* a World, its GameObjects and the game's code calling both
NextWorld ==
  \/ ConstructOp
  \/ WorldAddOp
  \/ DestroyOp
  \/ AddToGroupOp
  \/ RemoveFromGroupOp
  \/ UpdateOp
  \/ ClearOp3D
  \/ AdvanceOp

SpecWorld == Init /\ [][NextWorld]_vars

\* World.update or World.clear has just returned
Returned == world.last \in {"update", "clear"}
\* o was constructed in time for the flush of the frame under way or just over
DueForStart(o) ==
  \/ world.obj[o].born.frame < world.frame
  \/ world.obj[o].born.pc = "adds"

\* C22: every game object gets start() at most once and never gets update(dt)
\* before it; start() comes in the first World.update after the construction
\* (in the running one for an object constructed while toAdd is being
\* flushed), and no World.update returns with such an object unstarted
C22_StartOnceBeforeUpdate ==
  \A o \in Created :
    /\ world.obj[o].nStart <= 1
    /\ ~world.obj[o].updatedUnstarted
    /\ world.obj[o].nStart = 1 =>
         world.obj[o].startFrame =
           IF world.obj[o].born.pc = "adds" THEN world.obj[o].born.frame
           ELSE world.obj[o].born.frame + 1
    /\ Returned /\ DueForStart(o) => world.obj[o].nStart = 1

\* the flush has passed an object that is in toAdd twice and an object
\* constructed by a start() during this flush, and both have been started
C22_FlushedTwiceAndNested ==
  /\ world.pc = "adds"
  /\ \E o, p \in Created, j, k, l \in 1 .. Len(world.toAdd) :
       /\ j < k /\ k < l /\ l < world.i
       /\ world.toAdd[j] = o /\ world.toAdd[k] = o /\ world.toAdd[l] = p
       /\ world.obj[p].born.pc = "adds"
       /\ world.obj[o].nStart = 1
       /\ world.obj[p].nStart = 1

\* the objects some group holds
Grouped == UNION {world.groups[n] : n \in GroupNames}

\* C23 as stated: World.update never gives update(dt) to a dead object, and
\* when it returns, this.objects and every group hold live objects only
C23_NoDeadObjectAfterUpdate ==
  /\ \A o \in Created : ~world.obj[o].updatedDead
  /\ Returned => \A o \in Range(world.objects) \cup Grouped : world.obj[o].alive

\* C23 as the code has it: World.update never gives update(dt) to a dead
\* object; when it returns, this.objects holds live objects only, and a group
\* holds a dead object only if addToGroup put it there when it was already dead
C23_NoDeadObjectButStrays ==
  /\ \A o \in Created : ~world.obj[o].updatedDead
  /\ Returned =>
       /\ \A o \in Range(world.objects) : world.obj[o].alive
       /\ \A o \in Grouped : world.obj[o].alive \/ world.obj[o].joinedDead

\* World.update has returned leaving in a group a dead object that it had
\* flushed out in an earlier frame
C23_DeadObjectLeftInGroup ==
  /\ world.last = "update"
  /\ \E o \in Grouped :
       /\ ~world.obj[o].alive
       /\ world.obj[o].nDestroyInternal > 0
       /\ o \notin Range(world.objects)

\* C26: World calls _destroyInternal, and with it onDestroy, exactly once per
\* object: never twice, and once World.update has returned with the object
\* dead and out of the world, once
C26_DestroyInternalExactlyOnce ==
  \A o \in Created :
    /\ world.obj[o].nDestroyInternal <= 1
    /\ /\ Returned
       /\ ~world.obj[o].alive
       /\ o \notin Range(world.objects) \cup Range(world.toAdd)
       /\ o \notin Range(world.toRemove)
       => world.obj[o].nDestroyInternal = 1

\* C27: when World.clear() has returned the world manages nothing: the object
\* set, every group, the pending-add list and the pending-remove set are empty
C27_ClearLeavesNothing ==
  world.last = "clear" =>
    /\ world.objects = <<>>
    /\ \A n \in GroupNames : world.groups[n] = {}
    /\ world.toAdd = <<>>
    /\ world.toRemove = <<>>

(* components/StatComponent.js and components/HealthComponent.js *)

\* every variable but health
notHealth ==
  <<impl, heightmap, simTime, mousePos, mouseSize, splashStrength, pw, rw, planeWaves,
    radialWaves, rwWrite, ret, lastOp, nCalls, nSteps, nRadial, forced, alt, pass, body,
    upd, peer, tmp, world, scene>>

StatPart(partType, value) == [partType |-> partType, value |-> value]
\* new Stat(name, value, min, max)
Stat(value, min, max) ==
  <<StatPart("base", value), StatPart("min", min), StatPart("max", max)>>
\* statParts.forEach(part => { if (part.partType is one of types) total += part.value })
RECURSIVE SumParts(_, _, _)
SumParts(statParts, types, k) ==
  IF k = 0 THEN 0
  ELSE SumParts(statParts, types, k - 1)
       + (IF statParts[k].partType \in types THEN statParts[k].value ELSE 0)
\* the part types collapseParts adds up
SummedLegacy == {"base", "heal", "damage"}
Summed == {"base", "increase", "decrease"}
\* Stat.collapseParts: the new statParts and the value returned
CollapseParts(statParts) ==
  LET n == Len(statParts)
      Collapsed(totalValue, totalMin, totalMax) ==
        [statParts |-> Stat(MinI(MaxI(totalValue, totalMin), totalMax), totalMin, totalMax),
         result |-> totalValue]
  IN Collapsed(SumParts(statParts, Summed, n), SumParts(statParts, {"min"}, n),
               SumParts(statParts, {"max"}, n))
\* Stat.getStatValue
GetStatValue(statParts) == SumParts(statParts, {"base"}, Len(statParts))
\* StatTracker.getStat
GetStat(H, statName) == GetStatValue(H.stats[statName])
\* StatTracker.addStatPart on a stat the tracker has
AddStatPart(H, statName, statPart) == [H EXCEPT !.stats[statName] = Append(@, statPart)]

\* new HealthComponent(parent, {health, regenRate, armor})
HealthComponent(h, regenRate, armor) ==
  [NewHealth EXCEPT !.made = TRUE, !.last = "constructor",
                    !.stats = [health |-> Stat(h, 0, 100),
                               regenRate |-> Stat(regenRate, 0, 999),
                               armor |-> Stat(armor, 0, 999)]]
\* HealthComponent.damage
HealthDamage(H, amount) ==
  LET Decrease(effectiveDamage) ==
        AddStatPart(H, "health", StatPart("decrease", 0 - effectiveDamage))
  IN Decrease(MaxI(0, amount - GetStat(H, "armor")))
\* HealthComponent.heal
HealthHeal(H, amount) == AddStatPart(H, "health", StatPart("increase", amount))
\* HealthComponent.compUpdate
HealthCompUpdate(H, dt) ==
  LET Regen(regenRate) ==
        IF regenRate > 0
        THEN AddStatPart(H, "health", StatPart("increase", regenRate * dt))
        ELSE H
      Check(R, c) ==
        [R EXCEPT !.stats.health = c.statParts,
                  !.parentDestroys = IF c.result <= 0 THEN @ + 1 ELSE @,
                  !.destroyedNow = c.result <= 0]
      Collapse(R) == Check(R, CollapseParts(R.stats.health))
  IN Collapse(Regen(GetStat(H, "regenRate")))

HealthOptions == {0, 60, 100, 150}
RegenOptions == {0, 5}
ArmorOptions == {0, 10}
DamageAmounts == {5, 30, 130}
HealAmounts == {-20, 30}
Dts == {0, 2}

HealthCalled(H, name) == [H EXCEPT !.calls = @ + 1, !.last = name]

NewHealthOp ==
  /\ ~health.made
  /\ \E h \in HealthOptions, regenRate \in RegenOptions, armor \in ArmorOptions :
       health' = HealthComponent(h, regenRate, armor)
  /\ UNCHANGED notHealth

HealthDamageOp ==
  /\ health.made /\ health.calls < MaxHealthCalls
  /\ \E amount \in DamageAmounts, armor \in ArmorOptions :
       /\ armor = health.stats.armor[1].value
       /\ health' = [HealthCalled(HealthDamage(health, amount), "damage")
                       EXCEPT !.pending = @ - MaxI(0, amount - armor)]
  /\ UNCHANGED notHealth

HealthHealOp ==
  /\ health.made /\ health.calls < MaxHealthCalls
  /\ \E amount \in HealAmounts :
       health' = [HealthCalled(HealthHeal(health, amount), "heal")
                    EXCEPT !.pending = @ + amount]
  /\ UNCHANGED notHealth

HealthCompUpdateOp ==
  /\ health.made /\ health.calls < MaxHealthCalls
  /\ \E dt \in Dts, regenRate \in RegenOptions :
       /\ regenRate = health.stats.regenRate[1].value
       /\ health' = [HealthCalled(HealthCompUpdate(health, dt), "compUpdate")
                       EXCEPT !.pending = 0,
                              !.baseBefore = health.stats.health[1].value
                                             + health.pending,
                              !.regen = regenRate * dt]
  /\ UNCHANGED notHealth

NextHealth == NewHealthOp \/ HealthDamageOp \/ HealthHealOp \/ HealthCompUpdateOp
SpecHealth == Init /\ [][NextHealth]_vars

\* C24 as stated: after each compUpdate the health stat is in [0, 100], and
\* the compUpdate has destroyed the parent exactly when base health plus the
\* heal amounts less the armor-reduced damage amounts since the previous
\* compUpdate is <= 0
C24_DestroysWhenHealthSpent ==
  health.last = "compUpdate" =>
    /\ GetStat(health, "health") \in 0 .. 100
    /\ health.destroyedNow <=> health.baseBefore <= 0

\* C24 with the regeneration: after each compUpdate the health stat is in
\* [0, 100], and the compUpdate has destroyed the parent exactly when base
\* health plus its own regeneration regenRate * dt plus the heal amounts less
\* the armor-reduced damage amounts since the previous compUpdate is <= 0
C24_DestroysWhenHealthAndRegenSpent ==
  health.last = "compUpdate" =>
    /\ GetStat(health, "health") \in 0 .. 100
    /\ health.destroyedNow <=> health.baseBefore + health.regen <= 0

\* a compUpdate has spared a parent whose health was spent but for the
\* regeneration, after an earlier compUpdate of this armored component had
\* destroyed it
C24_RegenerationSavedParent ==
  /\ health.last = "compUpdate"
  /\ ~health.destroyedNow
  /\ health.baseBefore <= 0
  /\ health.regen > 0
  /\ health.parentDestroys > 0
  /\ GetStat(health, "armor") > 0

(* engine/GameScene.ts and engine/GameObject.ts *)

\* every variable but scene
notScene ==
  <<impl, heightmap, simTime, mousePos, mouseSize, splashStrength, pw, rw, planeWaves,
    radialWaves, rwWrite, ret, lastOp, nCalls, nSteps, nRadial, forced, alt, pass, body,
    upd, peer, tmp, world, health>>

\* GameScene.addGameObject / removeGameObject
AddGameObject(S, o) == [S EXCEPT !.pendingAdd = SetAdd(@, o)]
RemoveGameObject(S, o) == [S EXCEPT !.pendingRemove = SetAdd(@, o)]
\* GameObjectFactory.create(gameScene, {groups, health})
Create(S, groups, h) ==
  AddGameObject([S EXCEPT !.obj[S.nextId] =
                            [created |-> TRUE, alive |-> TRUE, removed |-> FALSE,
                             groups |-> groups, health |-> h, maxHealth |-> 100],
                          !.nextId = @ + 1],
                S.nextId)
\* GameObject.kill
Kill(S, o) == RemoveGameObject([S EXCEPT !.obj[o].alive = FALSE], o)
\* "this.props.gameScene.groupManager.get(group)?.add(this)": the group is
\* created when it is missing
ManagerAddEnsured(S, group, o) ==
  [S EXCEPT !.has = @ \cup {group}, !.members[group] = @ \cup {o}]
ManagerAdd(S, group, o) ==
  IF group \in S.has THEN [S EXCEPT !.members[group] = @ \cup {o}] ELSE S
\* "groupManager.get(group)?.delete(obj)"
ManagerDelete(S, group, o) ==
  IF group \in S.has THEN [S EXCEPT !.members[group] = @ \ {o}] ELSE S
\* GameObject.addToGroup / removeFromGroup
SceneAddToGroup(S, o, group) ==
  ManagerAdd([S EXCEPT !.obj[o].groups = @ \cup {group}], group, o)
SceneRemoveFromGroup(S, o, group) ==
  ManagerDelete([S EXCEPT !.obj[o].groups = @ \ {group}], group, o)
\* "DAMAGE_TYPES.HEAL adds the amount; any other type takes at most the
\* health left": modifiedAmount of a damage() call without components
ModifiedAmount(S, o, amount, type) ==
  IF type = "heal" THEN 0 - amount ELSE MinI(S.obj[o].health, amount)
\* GameObject.damage({amount, type}): the scene it leaves, the value in ret
Damage(S, o, amount, type) ==
  LET Hit(modifiedAmount) ==
        LET Hurt(T) ==
              [(IF T.obj[o].health <= 0 THEN Kill(T, o) ELSE T)
                 EXCEPT !.ret = modifiedAmount]
        IN Hurt([S EXCEPT !.obj[o].health = @ - modifiedAmount])
  IN IF ~S.obj[o].alive THEN [S EXCEPT !.ret = 0]
     ELSE Hit(ModifiedAmount(S, o, amount, type))
\* GameScene.removeAllFromGroup
RECURSIVE KillAll(_, _)
KillAll(S, objs) ==
  IF objs = {} THEN S
  ELSE LET o == CHOOSE x \in objs : \A y \in objs : x <= y
       IN KillAll(Kill(S, o), objs \ {o})
RemoveAllFromGroup(S, group) ==
  IF group \in S.has THEN KillAll(S, S.members[group]) ELSE S
\* "obj.props.groups.forEach(group => ...)" of cleanupPendingAdd
RECURSIVE JoinGroups(_, _, _)
JoinGroups(S, o, groups) ==
  IF groups = {} THEN S
  ELSE LET g == CHOOSE x \in groups : TRUE
       IN JoinGroups(ManagerAddEnsured(S, g, o), o, groups \ {g})
\* "obj.props.groups.forEach(group => ...)" of cleanupPendingRemove
RECURSIVE LeaveGroups(_, _, _)
LeaveGroups(S, o, groups) ==
  IF groups = {} THEN S
  ELSE LET g == CHOOSE x \in groups : TRUE
       IN LeaveGroups(ManagerDelete(S, g, o), o, groups \ {g})
\* GameScene.cleanupPendingAdd
RECURSIVE CleanupPendingAdd(_)
CleanupPendingAdd(S) ==
  IF S.pendingAdd = <<>> THEN S
  ELSE LET o == S.pendingAdd[1]
           Added(T) == [T EXCEPT !.pendingAdd = SetDelete(@, o)]
       IN CleanupPendingAdd(
            Added(JoinGroups([S EXCEPT !.gameObjects = SetAdd(@, o)], o,
                             S.obj[o].groups)))
\* "if (!obj.alive) this.pendingRemove.add(obj)" for every obj of gameObjects
RECURSIVE UpdateAll(_, _)
UpdateAll(S, k) ==
  IF k > Len(S.gameObjects) THEN S
  ELSE UpdateAll(IF S.obj[S.gameObjects[k]].alive THEN S
                 ELSE RemoveGameObject(S, S.gameObjects[k]), k + 1)
\* GameScene.cleanupPendingRemove
RECURSIVE CleanupPendingRemove(_)
CleanupPendingRemove(S) ==
  IF S.pendingRemove = <<>> THEN S
  ELSE LET o == S.pendingRemove[1]
           Removed(T) ==
             [T EXCEPT !.pendingRemove = SetDelete(@, o),
                       !.gameObjects = SetDelete(@, o),
                       !.obj[o].removed = TRUE, !.obj[o].groups = {},
                       !.obj[o].health = 0, !.obj[o].maxHealth = 0]
       IN CleanupPendingRemove(Removed(LeaveGroups(S, o, S.obj[o].groups)))
\* GameScene.update
SceneUpdate(S) == CleanupPendingRemove(UpdateAll(CleanupPendingAdd(S), 1))

HealthStarts == {30, 100}
HitAmounts == {30, 150}
DamageTypes == {"generic", "heal"}

SceneCalled(S, name) == [S EXCEPT !.calls = @ + 1, !.last = name]
\* the objects whose props the game's code can still reach
WithProps == {o \in SceneIds : scene.obj[o].created /\ ~scene.obj[o].removed}
InScene == scene.calls < MaxSceneCalls

CreateOp ==
  /\ InScene
  /\ scene.nextId <= MaxSceneObjects
  /\ \E groups \in SUBSET SceneGroups, h \in HealthStarts :
       scene' = SceneCalled(Create(scene, groups, h), "create")
  /\ UNCHANGED notScene

SceneAddToGroupOp ==
  /\ InScene
  /\ \E o \in WithProps, group \in SceneGroups :
       scene' = SceneCalled(SceneAddToGroup(scene, o, group), "addToGroup")
  /\ UNCHANGED notScene

SceneRemoveFromGroupOp ==
  /\ InScene
  /\ \E o \in WithProps, group \in SceneGroups :
       scene' = SceneCalled(SceneRemoveFromGroup(scene, o, group), "removeFromGroup")
  /\ UNCHANGED notScene

KillOp ==
  /\ InScene
  /\ \E o \in WithProps : scene' = SceneCalled(Kill(scene, o), "kill")
  /\ UNCHANGED notScene

RemoveAllFromGroupOp ==
  /\ InScene
  /\ \E group \in SceneGroups :
       scene' = SceneCalled(RemoveAllFromGroup(scene, group), "removeAllFromGroup")
  /\ UNCHANGED notScene

DamageOp ==
  /\ InScene
  /\ \E o \in {x \in SceneIds : scene.obj[x].created},
        amount \in HitAmounts, type \in DamageTypes :
       \E after \in {Damage(scene, o, amount, type)} :
         scene' =
           [SceneCalled(after, "damage") EXCEPT
              !.deadChanged =
                @ \/ (~scene.obj[o].alive
                      /\ (after.ret # 0 \/ after # [scene EXCEPT !.ret = 0])),
              !.lateKill =
                @ \/ (scene.obj[o].health > 0 /\ after.obj[o].health <= 0
                      /\ (after.obj[o].alive \/ o \notin Range(after.pendingRemove)))]
  /\ UNCHANGED notScene

SceneUpdateOp ==
  /\ InScene
  /\ scene' = SceneCalled(SceneUpdate(scene), "update")
  /\ UNCHANGED notScene

NextScene ==
  \/ CreateOp \/ SceneAddToGroupOp \/ SceneRemoveFromGroupOp \/ KillOp
  \/ RemoveAllFromGroupOp \/ DamageOp \/ SceneUpdateOp
SpecScene == Init /\ [][NextScene]_vars

\* C28: for every live game object in gameObjects and every group name g, g is
\* in the object's props.groups exactly when the object is in groupManager's
\* set for g
C28_GroupsConsistentBothWays ==
  \A o \in Range(scene.gameObjects) :
    scene.obj[o].alive =>
      \A g \in SceneGroups :
        g \in scene.obj[o].groups <=> g \in scene.has /\ o \in scene.members[g]

\* C29: the health of a game object without components stays within
\* [0, maxHealth] under damage() calls of any type; a call on an object that
\* is not alive returns 0 and changes nothing; the object is killed in the
\* very call that brings its health to 0
C29_HealthWithinMaxHealth ==
  /\ \A o \in WithProps : scene.obj[o].health \in 0 .. scene.obj[o].maxHealth
  /\ ~scene.deadChanged
  /\ ~scene.lateKill

====
